---------------------------- MODULE Spec2Model ----------------------------
(***************************************************************************)
(* LabelScan: the detection / association / ordering pipeline.             *)
(*                                                                         *)
(* Python dicts are functions with a string domain (records); d.get(k, v)  *)
(* is Get(d, k, v).  Box centres x + width/2 are kept doubled (2x + width) *)
(* so that half pixels stay integers.  Association scores are kept in      *)
(* fixed point (ScoreScale units).                                         *)
(***************************************************************************)
EXTENDS Integers, Sequences, FiniteSets, TLC

VARIABLES
    \* OrderSorter exercised on its own
    s_objects,      \* the list handed to sort()
    s_order,        \* the order mode string
    s_tol,          \* OrderSorter.row_tolerance
    s_rows,         \* local `rows` of sort_reading_order (before the x sort)
    s_sorted,       \* sort(objects, order)
    s_resorted,     \* sort(sort(objects, order), order)
    s_numbered,     \* add_order_numbers(sorted)
    s_pc,
    \* AssociationAnalyzer.associate_text_with_barcodes exercised on its own
    a_barcodes,     \* argument barcodes
    a_texts,        \* argument text_regions
    a_cfg,          \* the analyzer's configuration
    a_idx,          \* index of the barcode the outer loop handles next
    a_results,      \* local `results`
    a_used,         \* local `used_text_indices`
    a_independent,  \* local `independent_text`
    a_groups,       \* create_groups(results), once it is called
    a_pc,
    \* BarcodeDetector.decode_with_enhancement
    e_small,        \* max(height, width) < 1500 for the image handed in
    e_try,          \* number of the next try (1..8)
    e_barcodes,     \* local `barcodes`: what decode_barcodes returned last
    e_all,          \* local `all_barcodes`
    e_detected,     \* local `detected_data`
    e_pc,
    \* LabelProcessor.process_image
    p_mode,             \* argument mode (the processing depth)
    p_recognition_mode, \* argument recognition_mode
    p_sort_order,       \* argument sort_order
    p_image_dim,        \* max(height, width) of the argument image
    p_tesseract,        \* text_recognizer.tesseract_available
    p_ai,               \* the state of ai_recognizer
    p_ocr,              \* local `ocr_result`
    p_reply,            \* what the chat-completion request came back with
    p_result,           \* local `result`, returned at the end
    p_pc,
    \* One request to the HTTP endpoints of main.py, and label_processor.ai_recognizer
    r_endpoint,     \* "single", "stream" or "batch"
    r_ai,           \* recognition_mode == 'ai'
    r_images,       \* number of uploaded images
    r_index,        \* number of the image the handler is at
    r_files,        \* images whose temp file exists in temp_dir
    r_seen,         \* the recognizers the request has read so far
    r_chunks,       \* lines of the engine's response not read yet
    r_lines,        \* the lines of the engine's response, as sent
    r_events,       \* events the generator has yielded to the client
    r_running,      \* the event loop is inside the request's handler or generator
    r_pc,
    g_recognizer,   \* label_processor.ai_recognizer (counted from 0)
    g_available     \* is_available() of that recognizer

sortVars == <<s_objects, s_order, s_tol, s_rows, s_sorted, s_resorted, s_numbered, s_pc>>
assocVars == <<a_barcodes, a_texts, a_cfg, a_idx, a_results, a_used, a_independent, a_groups, a_pc>>
ensVars == <<e_small, e_try, e_barcodes, e_all, e_detected, e_pc>>
pipeVars == <<p_mode, p_recognition_mode, p_sort_order, p_image_dim, p_tesseract, p_ai,
              p_ocr, p_reply, p_result, p_pc>>
apiVars == <<r_endpoint, r_ai, r_images, r_index, r_files, r_seen, r_chunks, r_lines,
             r_events, r_running, r_pc, g_recognizer, g_available>>
vars == <<sortVars, assocVars, ensVars, pipeVars, apiVars>>

-----------------------------------------------------------------------------
(* Bounds of the model *)
MaxObjects == 3
MaxBarcodes == 2
MaxFragments == 2
MaxDecoded == 2

-----------------------------------------------------------------------------
(* Dict helpers *)
EmptyDict == << >>
Get(d, k, default) == IF k \in DOMAIN d THEN d[k] ELSE default
SetKey(d, k, v) == [j \in DOMAIN d \cup {k} |-> IF j = k THEN v ELSE d[j]]
Box(x, y, w, h) == [x |-> x, y |-> y, width |-> w, height |-> h]
Abs(n) == IF n < 0 THEN -n ELSE n
SeqsUpTo(S, n) == UNION {[1..k -> S] : k \in 0..n}

-----------------------------------------------------------------------------
(* OrderSorter *)
RowToleranceDefault == 30

\* _get_y_center, doubled: 2 * (y + height / 2)
YCenter2(obj) ==
    LET pos == Get(obj, "position", EmptyDict)
    IN  2 * Get(pos, "y", 0) + Get(pos, "height", 0)

\* _get_x_center, doubled: 2 * (x + width / 2)
XCenter2(obj) ==
    LET pos == Get(obj, "position", EmptyDict)
    IN  2 * Get(pos, "x", 0) + Get(pos, "width", 0)

SortKey(obj, axis) == IF axis = "y" THEN YCenter2(obj) ELSE XCenter2(obj)

\* Unstable variant: an element goes before the elements of equal key.
InsertByKeyUnstable(s, e, axis) ==
    LET n == Cardinality({i \in DOMAIN s : SortKey(s[i], axis) < SortKey(e, axis)})
    IN  SubSeq(s, 1, n) \o <<e>> \o SubSeq(s, n + 1, Len(s))

\* One insertion of Python's stable sorted(): after every element of key <= its own.
InsertByKey(s, e, axis) ==
    LET n == Cardinality({i \in DOMAIN s : SortKey(s[i], axis) <= SortKey(e, axis)})
    IN  SubSeq(s, 1, n) \o <<e>> \o SubSeq(s, n + 1, Len(s))

RECURSIVE SortedByKey(_, _)
\* sorted(objects, key=...): stable, ascending
SortedByKey(objs, axis) ==
    IF objs = << >> THEN << >>
    ELSE InsertByKey(SortedByKey(SubSeq(objs, 1, Len(objs) - 1), axis), objs[Len(objs)], axis)

sort_top_to_bottom(objs) == SortedByKey(objs, "y")
sort_left_to_right(objs) == SortedByKey(objs, "x")

\* The row loop with a drifting anchor: current_y follows the last member.
RowStepDrift(st, obj, tol) ==
    IF Abs(YCenter2(obj) - st.current_y) <= 2 * tol
    THEN [st EXCEPT !.current_row = Append(@, obj), !.current_y = YCenter2(obj)]
    ELSE [rows |-> Append(st.rows, st.current_row),
          current_row |-> <<obj>>,
          current_y |-> YCenter2(obj)]

\* One iteration of the row loop of sort_reading_order (current_y is doubled).
RowStep(st, obj, tol) ==
    IF Abs(YCenter2(obj) - st.current_y) <= 2 * tol
    THEN [st EXCEPT !.current_row = Append(@, obj)]
    ELSE [rows |-> Append(st.rows, st.current_row),
          current_row |-> <<obj>>,
          current_y |-> YCenter2(obj)]

RECURSIVE RowLoop(_, _, _)
RowLoop(st, rest, tol) ==
    IF rest = << >> THEN st
    ELSE RowLoop(RowStep(st, Head(rest), tol), Tail(rest), tol)

\* `rows` of sort_reading_order once the last row is added (objs is not empty)
GroupRows(objs, tol) ==
    LET y_sorted == SortedByKey(objs, "y")
        st == RowLoop([rows |-> << >>,
                       current_row |-> <<y_sorted[1]>>,
                       current_y |-> YCenter2(y_sorted[1])],
                      Tail(y_sorted), tol)
    IN  IF st.current_row # << >> THEN Append(st.rows, st.current_row) ELSE st.rows

RECURSIVE ExtendRowsAsGrouped(_)
\* The rows concatenated as they were grouped, without the sort inside each row.
ExtendRowsAsGrouped(rows) ==
    IF rows = << >> THEN << >> ELSE Head(rows) \o ExtendRowsAsGrouped(Tail(rows))

RECURSIVE ExtendRows(_)
\* result.extend(sorted(row, key=x_center)) over the rows
ExtendRows(rows) ==
    IF rows = << >> THEN << >>
    ELSE SortedByKey(Head(rows), "x") \o ExtendRows(Tail(rows))

sort_reading_order(objs, tol) ==
    IF objs = << >> THEN << >> ELSE ExtendRows(GroupRows(objs, tol))

sort_grid_order(objs, tol) == sort_reading_order(objs, tol)

\* A sort that leaves out the objects without a position.
SortPositioned(objs, order, tol) ==
    LET kept == SelectSeq(objs, LAMBDA obj : "position" \in DOMAIN obj)
    IN  IF kept = << >> THEN << >>
        ELSE IF order = "top_to_bottom" THEN sort_top_to_bottom(kept)
        ELSE IF order = "left_to_right" THEN sort_left_to_right(kept)
        ELSE IF order = "grid_order" THEN sort_grid_order(kept, tol)
        ELSE sort_reading_order(kept, tol)

\* OrderSorter.sort
Sort(objs, order, tol) ==
    IF objs = << >> THEN << >>
    ELSE IF order = "top_to_bottom" THEN sort_top_to_bottom(objs)
    ELSE IF order = "left_to_right" THEN sort_left_to_right(objs)
    ELSE IF order = "grid_order" THEN sort_grid_order(objs, tol)
    ELSE sort_reading_order(objs, tol)

\* Numbering from 0.
add_order_numbers_from0(objs) == [i \in DOMAIN objs |-> SetKey(objs[i], "order", i - 1)]

\* OrderSorter.add_order_numbers: obj["order"] = idx + 1 over enumerate(objects);
\* the list holds distinct dict objects (every caller builds them fresh).
add_order_numbers(objs) == [i \in DOMAIN objs |-> SetKey(objs[i], "order", i)]

-----------------------------------------------------------------------------
(* AssociationAnalyzer *)

\* Scores are floats in the code; here they are integers in units of 1/ScoreScale,
\* distances integers in units of 1/DistScale pixel, both rounded down.
ScoreScale == 10 * 1000
DistScale == 10 * 10

\* Defaults of AssociationAnalyzer.__init__ (multiplier in tenths, thresholds in
\* score units)
DefaultRadiusMultiplier10 == 20
DefaultStrongThreshold == 5000
DefaultWeakThreshold == 3000
DefaultConfig ==
    [multiplier10 |-> DefaultRadiusMultiplier10,
     strong_threshold |-> DefaultStrongThreshold,
     weak_threshold |-> DefaultWeakThreshold]

RECURSIVE ISqrtBetween(_, _, _)
\* the r with lo <= r < hi and r * r <= n < (r + 1) * (r + 1)
ISqrtBetween(n, lo, hi) ==
    IF hi - lo <= 1 THEN lo
    ELSE LET mid == (lo + hi) \div 2
         IN  IF mid * mid <= n THEN ISqrtBetween(n, mid, hi) ELSE ISqrtBetween(n, lo, mid)
ISqrt(n) == ISqrtBetween(n, 0, 46341)

\* _get_center, doubled: <<2 * cx, 2 * cy>>
Center2(position) ==
    <<2 * position.x + position.width, 2 * position.y + position.height>>

\* Square of the doubled centre distance (exact)
Dist2Sq(pos1, pos2) ==
    LET c1 == Center2(pos1)
        c2 == Center2(pos2)
    IN  (c1[1] - c2[1]) * (c1[1] - c2[1]) + (c1[2] - c2[2]) * (c1[2] - c2[2])

\* _calculate_distance, in 1/DistScale pixel, rounded down
Distance(pos1, pos2) == ISqrt(Dist2Sq(pos1, pos2) * (DistScale \div 2) * (DistScale \div 2))

Directions == {"right", "bottom", "left", "top"}

\* The comparison of |dx| and |dy| taken the other way at equality.
GetDirectionTieRight(barcode_pos, text_pos) ==
    LET dx == Center2(text_pos)[1] - Center2(barcode_pos)[1]
        dy == Center2(text_pos)[2] - Center2(barcode_pos)[2]
    IN  IF Abs(dx) >= Abs(dy)
        THEN (IF dx > 0 THEN "right" ELSE "left")
        ELSE (IF dy > 0 THEN "bottom" ELSE "top")

\* _get_direction
GetDirection(barcode_pos, text_pos) ==
    LET dx == Center2(text_pos)[1] - Center2(barcode_pos)[1]
        dy == Center2(text_pos)[2] - Center2(barcode_pos)[2]
    IN  IF Abs(dx) > Abs(dy)
        THEN (IF dx > 0 THEN "right" ELSE "left")
        ELSE (IF dy > 0 THEN "bottom" ELSE "top")

\* self.direction_weights (the constructor's defaults), in tenths
DirectionWeight10(direction) ==
    CASE direction = "right" -> 8
      [] direction = "bottom" -> 6
      [] direction = "left" -> 4
      [] direction = "top" -> 3

\* max_radius = width * multiplier, in 1/DistScale pixel
MaxRadius(barcode, cfg) == barcode.position.width * cfg.multiplier10 * (DistScale \div 10)

\* distance > max_radius, decided exactly
BeyondRadius(barcode, text_region, cfg) ==
    LET r == MaxRadius(barcode, cfg)
    IN  \/ r < 0
        \/ Dist2Sq(barcode.position, text_region.position)
               * (DistScale \div 2) * (DistScale \div 2) > r * r

\* distance / max_radius with max_radius = 0: ZeroDivisionError
ScoreRaises(barcode, text_region, cfg) ==
    /\ ~BeyondRadius(barcode, text_region, cfg)
    /\ MaxRadius(barcode, cfg) = 0

\* _calculate_association_score (where it does not raise)
AssociationScore(barcode, text_region, cfg) ==
    IF BeyondRadius(barcode, text_region, cfg) THEN 0
    ELSE LET r == MaxRadius(barcode, cfg)
             d == Distance(barcode.position, text_region.position)
             w == DirectionWeight10(GetDirection(barcode.position, text_region.position))
         IN  ((r - d) * w * (ScoreScale \div 10)) \div r

\* The record appended to `associations`
AssociationRecord(text_region, score, cfg) ==
    [text |-> text_region.text,
     position |-> text_region.position,
     confidence |-> Get(text_region, "confidence", 100),
     score |-> score,
     relation_type |-> IF score >= cfg.strong_threshold THEN "strong" ELSE "weak"]

\* The inner loop body that never marks a fragment as used.
TextStepNoUse(st, barcode, texts, idx, cfg) ==
    IF idx \in st.used \/ st.raised THEN st
    ELSE IF ScoreRaises(barcode, texts[idx], cfg) THEN [st EXCEPT !.raised = TRUE]
    ELSE LET score == AssociationScore(barcode, texts[idx], cfg)
         IN  IF score >= cfg.weak_threshold
             THEN [st EXCEPT !.associations = Append(@, AssociationRecord(texts[idx], score, cfg))]
             ELSE st

\* The inner loop body that records whenever the score is positive.
TextStepPositive(st, barcode, texts, idx, cfg) ==
    IF idx \in st.used \/ st.raised THEN st
    ELSE IF ScoreRaises(barcode, texts[idx], cfg) THEN [st EXCEPT !.raised = TRUE]
    ELSE LET score == AssociationScore(barcode, texts[idx], cfg)
         IN  IF score > 0
             THEN [st EXCEPT
                     !.associations = Append(@, AssociationRecord(texts[idx], score, cfg)),
                     !.used = IF score >= cfg.strong_threshold THEN @ \cup {idx} ELSE @]
             ELSE st

\* One iteration of `for idx, text_region in enumerate(text_regions)`;
\* st = [associations, used, raised]
TextStep(st, barcode, texts, idx, cfg) ==
    IF idx \in st.used \/ st.raised THEN st
    ELSE IF ScoreRaises(barcode, texts[idx], cfg) THEN [st EXCEPT !.raised = TRUE]
    ELSE LET score == AssociationScore(barcode, texts[idx], cfg)
         IN  IF score >= cfg.weak_threshold
             THEN [st EXCEPT
                     !.associations = Append(@, AssociationRecord(texts[idx], score, cfg)),
                     !.used = IF score >= cfg.strong_threshold THEN @ \cup {idx} ELSE @]
             ELSE st

RECURSIVE TextLoop(_, _, _, _, _)
TextLoop(st, barcode, texts, idx, cfg) ==
    IF idx > Len(texts) THEN st
    ELSE TextLoop(TextStep(st, barcode, texts, idx, cfg), barcode, texts, idx + 1, cfg)

\* An insertion that puts a record in front of the records of equal score.
InsertBeforeEqual(s, e) ==
    LET n == Cardinality({i \in DOMAIN s : s[i].score > e.score})
    IN  SubSeq(s, 1, n) \o <<e>> \o SubSeq(s, n + 1, Len(s))

\* One insertion of associations.sort(key=score, reverse=True): descending, and
\* records of equal score keep their order
InsertByScore(s, e) ==
    LET n == Cardinality({i \in DOMAIN s : s[i].score >= e.score})
    IN  SubSeq(s, 1, n) \o <<e>> \o SubSeq(s, n + 1, Len(s))

RECURSIVE SortedByScore(_)
SortedByScore(assocs) ==
    IF assocs = << >> THEN << >>
    ELSE InsertByScore(SortedByScore(SubSeq(assocs, 1, Len(assocs) - 1)), assocs[Len(assocs)])

\* The outer loop body with a consumed set that lasts for one barcode only.
BarcodeStepLocalUse(st, barcode, texts, cfg) ==
    LET inner == TextLoop([associations |-> << >>, used |-> {}, raised |-> FALSE],
                          barcode, texts, 1, cfg)
        associations == SortedByScore(inner.associations)
    IN  IF inner.raised THEN [st EXCEPT !.raised = TRUE]
        ELSE [results |-> Append(st.results,
                                 [barcode |-> barcode,
                                  related_text |-> associations,
                                  has_association |-> Len(associations) > 0]),
              used |-> st.used \cup inner.used,
              raised |-> FALSE]

\* The body of `for barcode in barcodes`; st = [results, used, raised]
BarcodeStep(st, barcode, texts, cfg) ==
    LET inner == TextLoop([associations |-> << >>, used |-> st.used, raised |-> FALSE],
                          barcode, texts, 1, cfg)
        associations == SortedByScore(inner.associations)
    IN  IF inner.raised THEN [st EXCEPT !.raised = TRUE]
        ELSE [results |-> Append(st.results,
                                 [barcode |-> barcode,
                                  related_text |-> associations,
                                  has_association |-> Len(associations) > 0]),
              used |-> inner.used,
              raised |-> FALSE]

RECURSIVE JoinTexts(_)
\* " ".join(texts)
JoinTexts(texts) ==
    IF texts = << >> THEN ""
    ELSE IF Len(texts) = 1 THEN texts[1]
    ELSE texts[1] \o " " \o JoinTexts(Tail(texts))

\* [r["text"] for r in related]
TextsOf(related) == [k \in DOMAIN related |-> related[k].text]

\* Groups that are strong only when every fragment is.
create_groups_all_strong(associations) ==
    [b \in DOMAIN associations |->
        LET barcode == associations[b].barcode
            related == associations[b].related_text
        IN  [barcode_data |-> barcode.barcode_data,
             barcode_type |-> barcode.barcode_type,
             position |-> barcode.position,
             related_text |-> JoinTexts(TextsOf(related)),
             text_count |-> Len(related),
             relation_strength |->
                 IF /\ related # << >>
                    /\ \A k \in DOMAIN related : related[k].relation_type = "strong"
                 THEN "strong" ELSE "weak"]]

\* create_groups
create_groups(associations) ==
    [b \in DOMAIN associations |->
        LET barcode == associations[b].barcode
            related == associations[b].related_text
        IN  [barcode_data |-> barcode.barcode_data,
             barcode_type |-> barcode.barcode_type,
             position |-> barcode.position,
             related_text |-> JoinTexts(TextsOf(related)),
             text_count |-> Len(related),
             relation_strength |->
                 IF \E k \in DOMAIN related : related[k].relation_type = "strong"
                 THEN "strong" ELSE "weak"]]

\* Every fragment reported as independent, used or not.
IndependentTextAll(texts, used) ==
    [i \in DOMAIN texts |->
        [text |-> texts[i].text, position |-> texts[i].position, type |-> "independent"]]

RECURSIVE IndependentFrom(_, _, _)
IndependentFrom(texts, used, idx) ==
    IF idx > Len(texts) THEN << >>
    ELSE (IF idx \notin used
          THEN <<[text |-> texts[idx].text,
                  position |-> texts[idx].position,
                  type |-> "independent"]>>
          ELSE << >>) \o IndependentFrom(texts, used, idx + 1)

\* The loop that builds independent_text
IndependentText(texts, used) == IndependentFrom(texts, used, 1)

-----------------------------------------------------------------------------
(* BarcodeDetector *)

\* barcode_info of decode_barcodes: confidence 1.0 is kept in percent (100), the
\* polygon is the decoder's vertex list (here two corners of the rect), decode_time
\* (wall clock) is left out
Barcode(data, type, position) ==
    [barcode_data |-> data, barcode_type |-> type, position |-> position,
     confidence |-> 100, polygon |-> <<<<position.x, position.y>>,
                                       <<position.x + position.width,
                                         position.y + position.height>>>>]

\* decode_barcodes: what pyzbar decoded, or [] when pyzbar.decode raised
decode_barcodes(outcome) == IF outcome.raised THEN << >> ELSE outcome.decoded

\* int(v / 1.5): truncation towards zero
DivideBy15(v) == IF v >= 0 THEN (2 * v) \div 3 ELSE -((2 * (-v)) \div 3)

\* The position of a detection of the upscaled image, brought back
Downscaled(bc) ==
    [bc EXCEPT !.position = [x |-> DivideBy15(bc.position.x),
                             y |-> DivideBy15(bc.position.y),
                             width |-> DivideBy15(bc.position.width),
                             height |-> DivideBy15(bc.position.height)]]

\* The merge loop body without the membership test.
MergeStepNoDedup(st, bc, upscaled) ==
    [all_barcodes |-> Append(st.all_barcodes, IF upscaled THEN Downscaled(bc) ELSE bc),
     detected_data |-> st.detected_data \cup {bc.barcode_data}]

\* The merge loop body keeping the latest detection of a payload
MergeStepLastWins(st, bc, upscaled) ==
    LET new == IF upscaled THEN Downscaled(bc) ELSE bc
    IN  IF bc.barcode_data \notin st.detected_data
        THEN [all_barcodes |-> Append(st.all_barcodes, new),
              detected_data |-> st.detected_data \cup {bc.barcode_data}]
        ELSE [all_barcodes |-> [i \in DOMAIN st.all_barcodes |->
                                  IF st.all_barcodes[i].barcode_data = bc.barcode_data
                                  THEN new ELSE st.all_barcodes[i]],
              detected_data |-> st.detected_data]

\* Body of `for bc in barcodes` of a try; st = [all_barcodes, detected_data]
MergeStep(st, bc, upscaled) ==
    IF bc.barcode_data \notin st.detected_data
    THEN [all_barcodes |-> Append(st.all_barcodes, IF upscaled THEN Downscaled(bc) ELSE bc),
          detected_data |-> st.detected_data \cup {bc.barcode_data}]
    ELSE st

RECURSIVE MergeLoop(_, _, _)
MergeLoop(st, barcodes, upscaled) ==
    IF barcodes = << >> THEN st
    ELSE MergeLoop(MergeStep(st, Head(barcodes), upscaled), Tail(barcodes), upscaled)

-----------------------------------------------------------------------------
(* TextRecognizer *)

MinConfidence == 40

\* int(v * 0.4) for v >= 0
TimesPoint4(v) == (2 * v) \div 5

\* The dedup key of extract_text_regions
RegionKey(word) == <<word.text, word.left \div 15, word.top \div 15>>

\* Body of the loop over the boxes of image_to_data; st = [all_regions, seen_texts].
\* conf is in percent here and in `confidence` (the code divides it by 100).
RegionStep(st, word) ==
    IF word.conf < MinConfidence \/ word.text = "" THEN st
    ELSE IF RegionKey(word) \in st.seen_texts THEN st
    ELSE [all_regions |-> Append(st.all_regions,
                                 [text |-> word.text,
                                  position |-> [x |-> TimesPoint4(word.left),
                                                y |-> TimesPoint4(word.top),
                                                width |-> TimesPoint4(word.width),
                                                height |-> TimesPoint4(word.height)],
                                  confidence |-> word.conf,
                                  level |-> word.level]),
          seen_texts |-> st.seen_texts \cup {RegionKey(word)}]

RECURSIVE RegionLoop(_, _)
RegionLoop(st, words) ==
    IF words = << >> THEN st ELSE RegionLoop(RegionStep(st, Head(words)), Tail(words))

\* One insertion of all_regions.sort(key=(y, x))
InsertByYX(s, e) ==
    LET n == Cardinality({i \in DOMAIN s :
                 \/ s[i].position.y < e.position.y
                 \/ s[i].position.y = e.position.y /\ s[i].position.x <= e.position.x})
    IN  SubSeq(s, 1, n) \o <<e>> \o SubSeq(s, n + 1, Len(s))

RECURSIVE SortedByYX(_)
SortedByYX(regions) ==
    IF regions = << >> THEN << >>
    ELSE InsertByYX(SortedByYX(SubSeq(regions, 1, Len(regions) - 1)), regions[Len(regions)])

\* extract_text_regions, from the words image_to_data reports on the 2.5x image
extract_text_regions(words) ==
    SortedByYX(RegionLoop([all_regions |-> << >>, seen_texts |-> {}], words).all_regions)

\* parse_structured_fields on the texts the model's OCR engine can return
parse_structured_fields(text) == IF text = "LOT: 9" THEN [lot |-> "9"] ELSE EmptyDict

\* recognize_full (ocr_time, wall clock, is left out)
recognize_full(ocr) ==
    [full_text |-> ocr.full_text,
     text_regions |-> extract_text_regions(ocr.words),
     structured_fields |-> IF ocr.full_text # "" THEN parse_structured_fields(ocr.full_text)
                           ELSE EmptyDict]

-----------------------------------------------------------------------------
(* AIRecognizer *)

None == "None"

\* is_available: the preconditions in the order they are tested
is_available(ai) ==
    /\ ai.enabled
    /\ ai.active_model_id
    /\ ai.model
    /\ ai.provider /\ ai.provider_enabled
    /\ ai.api_key

\* _format_result: the entry built for barcode number idx (from 0)
FormatBarcode(bc, idx) ==
    [barcode_data |-> Get(bc, "data", ""),
     barcode_type |-> Get(bc, "type", "UNKNOWN"),
     position |-> Get(bc, "position", Box(0, idx * 100, 100, 50))]

\* _format_result: the entry built for text number idx (from 0)
FormatText(txt, idx) ==
    [text |-> Get(txt, "text", ""),
     position |-> Get(txt, "position", Box(0, idx * 30, 100, 20)),
     confidence |-> Get(txt, "confidence", 100)]

\* _format_result
FormatResult(parsed) ==
    LET bcs == Get(parsed, "barcodes", << >>)
        txts == Get(parsed, "texts", << >>)
    IN  [barcodes |-> [i \in DOMAIN bcs |-> FormatBarcode(bcs[i], i - 1)],
         texts |-> [i \in DOMAIN txts |-> FormatText(txts[i], i - 1)],
         raw_response |-> parsed]

\* recognize(image) raises: the request failed, the body has no choices/message, or
\* the content is JSON but no object (parsed_result.get raises)
RecognizeRaises(reply) == reply.kind \in {"request_failed", "no_choices", "json_not_object"}

\* recognize(image), stream=False, where it returns
Recognize(reply) ==
    IF reply.kind = "not_json"
    THEN [barcodes |-> << >>,
          texts |-> <<[text |-> reply.content, position |-> Box(0, 0, 0, 0)]>>,
          raw_response |-> reply.content]
    ELSE FormatResult(reply.parsed)

-----------------------------------------------------------------------------
(* LabelProcessor *)

MaxImageSizeDefault == 2000
UpscaleLimit == 1500

\* resize_if_needed: the larger side of the image handed to the detector (the
\* resized side is int(dim * (max_size / dim)), max_size up to float rounding)
ResizedDim(dim) == IF dim > MaxImageSizeDefault THEN MaxImageSizeDefault ELSE dim

\* `result` as process_image first builds it
InitialResult(mode, recognition_mode, sort_order) ==
    [success |-> TRUE, mode_used |-> mode, recognition_mode |-> recognition_mode,
     sort_order |-> sort_order, results |-> << >>, process_time |-> 0, error |-> None]

\* process_image_file: what is returned when the image cannot be loaded
LoadFailure ==
    [success |-> FALSE, error |-> "Failed to load image"]

\* The except clause without `result["success"] = False`
FailedKeepsSuccess(result, message, elapsed) ==
    [result EXCEPT !.error = message, !.process_time = elapsed]

\* except Exception as e: success = False, error = str(e); then process_time
Failed(result, message, elapsed) ==
    [result EXCEPT !.success = FALSE, !.error = message, !.process_time = elapsed]

\* The diagnosis asking for the API key before the provider's enabled flag
UnavailableCauseKeyFirst(ai) ==
    IF ~ai.enabled THEN "unavailable: not enabled"
    ELSE IF ~ai.active_model_id THEN "unavailable: no active model"
    ELSE IF ~ai.model THEN "unavailable: model does not exist"
    ELSE IF ~ai.provider THEN "unavailable: provider does not exist"
    ELSE IF ~ai.api_key THEN "unavailable: provider lacks API key"
    ELSE IF ~ai.provider_enabled THEN "unavailable: provider not enabled"
    ELSE "unavailable:"

\* The message raised when the AI recognizer is not available
UnavailableCause(ai) ==
    IF ~ai.enabled THEN "unavailable: not enabled"
    ELSE IF ~ai.active_model_id THEN "unavailable: no active model"
    ELSE IF ~ai.model THEN "unavailable: model does not exist"
    ELSE IF ~ai.provider THEN "unavailable: provider does not exist"
    ELSE IF ~ai.provider_enabled THEN "unavailable: provider not enabled"
    ELSE IF ~ai.api_key THEN "unavailable: provider lacks API key"
    ELSE "unavailable:"

\* The list comprehension over sorted_barcodes
BarcodeResults(sorted_barcodes) ==
    [i \in DOMAIN sorted_barcodes |->
        [order |-> sorted_barcodes[i].order,
         type |-> "barcode",
         data |-> [barcode_data |-> sorted_barcodes[i].barcode_data,
                   barcode_type |-> sorted_barcodes[i].barcode_type],
         position |-> sorted_barcodes[i].position]]

\* The list comprehension over sorted_texts (ocr_only)
TextResults(sorted_texts) ==
    [i \in DOMAIN sorted_texts |->
        [order |-> sorted_texts[i].order,
         type |-> "text",
         data |-> [text |-> sorted_texts[i].text,
                   confidence |-> Get(sorted_texts[i], "confidence", 0)],
         position |-> sorted_texts[i].position]]

\* mixed_objects of the ai branch
AiMixedObjects(ai_result) ==
    [i \in DOMAIN ai_result.barcodes |->
        [type |-> "barcode",
         position |-> ai_result.barcodes[i].position,
         data |-> [barcode_data |-> ai_result.barcodes[i].barcode_data,
                   barcode_type |-> ai_result.barcodes[i].barcode_type]]]
    \o
    [i \in DOMAIN ai_result.texts |->
        [type |-> "text",
         position |-> ai_result.texts[i].position,
         data |-> [text |-> ai_result.texts[i].text,
                   confidence |-> Get(ai_result.texts[i], "confidence", 100)]]]

\* The text objects appended for independent_text
IndependentObjects(independent_text) ==
    [i \in DOMAIN independent_text |->
        [type |-> "text",
         position |-> independent_text[i].position,
         data |-> [text |-> independent_text[i].text]]]

\* mixed_objects without the independent fragments
BalancedGroupsOnly(associations, independent_text) ==
    [i \in DOMAIN associations |->
        LET bc == associations[i].barcode
            related_texts == [j \in DOMAIN associations[i].related_text |->
                                 associations[i].related_text[j].text]
        IN  [type |-> "barcode_group",
             position |-> bc.position,
             data |-> [barcode_data |-> bc.barcode_data,
                       barcode_type |-> bc.barcode_type,
                       related_text |-> IF related_texts # << >>
                                        THEN JoinTexts(related_texts) ELSE None]]]

\* mixed_objects of barcode_and_ocr at depth balanced
BalancedMixedObjects(associations, independent_text) ==
    [i \in DOMAIN associations |->
        LET bc == associations[i].barcode
            related_texts == [j \in DOMAIN associations[i].related_text |->
                                 associations[i].related_text[j].text]
        IN  [type |-> "barcode_group",
             position |-> bc.position,
             data |-> [barcode_data |-> bc.barcode_data,
                       barcode_type |-> bc.barcode_type,
                       related_text |-> IF related_texts # << >>
                                        THEN JoinTexts(related_texts) ELSE None]]]
    \o IndependentObjects(independent_text)

\* mixed_objects of barcode_and_ocr at depth full
FullMixedObjects(associations, independent_text) ==
    [i \in DOMAIN associations |->
        LET bc == associations[i].barcode
        IN  [type |-> "barcode_group",
             position |-> bc.position,
             data |-> [barcode_data |-> bc.barcode_data,
                       barcode_type |-> bc.barcode_type,
                       related_text_details |-> associations[i].related_text]]]
    \o IndependentObjects(independent_text)

\* order_sorter.sort followed by order_sorter.add_order_numbers
SortAndNumber(objs, sort_order) ==
    add_order_numbers(Sort(objs, sort_order, RowToleranceDefault))

\* `result` at the end of the ai branch
AiResult(result, ai_result, sort_order, elapsed) ==
    LET sorted_objects == SortAndNumber(AiMixedObjects(ai_result), sort_order)
    IN  SetKey([result EXCEPT !.results = sorted_objects, !.process_time = elapsed],
               "ai_raw_response", ai_result.raw_response)

\* The ocr_only branch with full_text at every depth
OcrOnlyResultFullText(result, ocr_result, sort_order, mode, elapsed) ==
    LET sorted_texts == SortAndNumber(ocr_result.text_regions, sort_order)
        base == SetKey([result EXCEPT !.results = TextResults(sorted_texts),
                                      !.process_time = elapsed],
                       "structured_fields", ocr_result.structured_fields)
    IN  SetKey(base, "full_text", ocr_result.full_text)

\* `result` at the end of the ocr_only branch
OcrOnlyResult(result, ocr_result, sort_order, mode, elapsed) ==
    LET sorted_texts == SortAndNumber(ocr_result.text_regions, sort_order)
        base == SetKey([result EXCEPT !.results = TextResults(sorted_texts),
                                      !.process_time = elapsed],
                       "structured_fields", ocr_result.structured_fields)
    IN  IF mode = "full" THEN SetKey(base, "full_text", ocr_result.full_text) ELSE base

-----------------------------------------------------------------------------
(* decode_with_enhancement, one try at a time *)

DecoderDetections ==
    { Barcode("ABC123", "CODE128", Box(0, 0, 100, 50)),
      Barcode("ABC123", "CODE128", Box(1, 1, 151, 76)),
      Barcode("XYZ", "QRCODE", Box(0, 60, 100, 50)),
      Barcode("DOT", "CODE39", Box(140, 20, 0, 0)) }

\* What one call of pyzbar.decode can do
DecoderOutcomes ==
    {[raised |-> TRUE, decoded |-> << >>]}
        \cup {[raised |-> FALSE, decoded |-> r] : r \in SeqsUpTo(DecoderDetections, MaxDecoded)}

EnsIdle ==
    /\ e_small = FALSE
    /\ e_try = 1
    /\ e_barcodes = << >>
    /\ e_all = << >>
    /\ e_detected = {}
    /\ e_pc = "idle"

\* The call: all_barcodes = [], detected_data = set()
EnsCalled ==
    /\ e_small \in BOOLEAN
    /\ e_try = 1
    /\ e_barcodes = << >>
    /\ e_all = << >>
    /\ e_detected = {}
    /\ e_pc = "run"

\* Tries 1 to 7: decode the variant and merge what is new
EnsembleTry ==
    /\ e_pc = "run"
    /\ e_try \in 1..7
    /\ \E outcome \in DecoderOutcomes :
          LET barcodes == decode_barcodes(outcome)
              st == MergeLoop([all_barcodes |-> e_all, detected_data |-> e_detected],
                              barcodes, FALSE)
          IN  /\ e_barcodes' = barcodes
              /\ e_all' = st.all_barcodes
              /\ e_detected' = st.detected_data
    /\ e_try' = e_try + 1
    /\ UNCHANGED <<e_small, e_pc>>
    /\ UNCHANGED <<sortVars, assocVars, pipeVars>>
    /\ UNCHANGED apiVars

\* Try 8 on a small image: decode the 1.5x image, bring new detections back, return
EnsembleTryUpscaled ==
    /\ e_pc = "run"
    /\ e_try = 8
    /\ e_small
    /\ \E outcome \in DecoderOutcomes :
          LET barcodes == decode_barcodes(outcome)
              st == MergeLoop([all_barcodes |-> e_all, detected_data |-> e_detected],
                              barcodes, TRUE)
          IN  /\ e_barcodes' = [i \in DOMAIN barcodes |->
                                  IF /\ barcodes[i].barcode_data \notin e_detected
                                     /\ \A j \in 1..(i - 1) :
                                           barcodes[j].barcode_data # barcodes[i].barcode_data
                                  THEN Downscaled(barcodes[i])   \* rescaled in place
                                  ELSE barcodes[i]]
              /\ e_all' = st.all_barcodes
              /\ e_detected' = st.detected_data
    /\ e_pc' = "returned"
    /\ UNCHANGED <<e_small, e_try>>
    /\ UNCHANGED <<sortVars, assocVars, pipeVars>>
    /\ UNCHANGED apiVars

\* Try 8 on a large image: nothing is decoded, all_barcodes is returned
EnsembleSkipUpscale ==
    /\ e_pc = "run"
    /\ e_try = 8
    /\ ~e_small
    /\ e_pc' = "returned"
    /\ UNCHANGED <<e_small, e_try, e_barcodes, e_all, e_detected>>
    /\ UNCHANGED <<sortVars, assocVars, pipeVars>>
    /\ UNCHANGED apiVars

\* The image transform of a try (cv2 calls of tries 2 to 8, outside any try/except)
\* raises: the exception leaves decode_with_enhancement
EnsembleTransformRaises ==
    /\ e_pc = "run"
    /\ e_try \in 2..8
    /\ e_try = 8 => e_small
    /\ e_pc' = "raised"
    /\ UNCHANGED <<e_small, e_try, e_barcodes, e_all, e_detected>>
    /\ UNCHANGED <<sortVars, assocVars, pipeVars>>
    /\ UNCHANGED apiVars

EnsNext ==
    \/ EnsembleTry \/ EnsembleTryUpscaled \/ EnsembleSkipUpscale \/ EnsembleTransformRaises

-----------------------------------------------------------------------------
(* associate_text_with_barcodes, one barcode at a time *)

AssocBarcodes ==
    { Barcode("ABC123", "CODE128", Box(0, 0, 100, 50)),
      Barcode("XYZ", "QRCODE", Box(0, 60, 100, 50)),
      Barcode("DOT", "CODE39", Box(140, 20, 0, 0)) }

AssocBoxes ==
    { Box(110, 10, 60, 20),     \* right of ABC123, weak by default
      Box(120, 20, 80, 20),     \* further right
      Box(100, 50, 20, 10),     \* strong for ABC123 and for XYZ
      Box(40, 445, 20, 10),     \* far below
      Box(80, 60, 20, 10),      \* on the diagonal of ABC123
      Box(40, 20, 20, 10) }     \* centred on ABC123

FragmentTexts == <<"LOT-9", "P/N", "QTY", "REF">>

\* Fragment number i is named FragmentTexts[i]
Fragments(boxes) ==
    [i \in DOMAIN boxes |->
        [text |-> FragmentTexts[i], position |-> boxes[i], confidence |-> 90]]

AssocConfigs ==
    { DefaultConfig,
      [DefaultConfig EXCEPT !.weak_threshold = 0],
      [DefaultConfig EXCEPT !.strong_threshold = 0, !.weak_threshold = -1000],
      [DefaultConfig EXCEPT !.strong_threshold = 2000],
      [DefaultConfig EXCEPT !.multiplier10 = 10] }

AssocIdle ==
    /\ a_barcodes = << >>
    /\ a_texts = << >>
    /\ a_cfg = DefaultConfig
    /\ a_idx = 1
    /\ a_results = << >>
    /\ a_used = {}
    /\ a_independent = << >>
    /\ a_groups = << >>
    /\ a_pc = "idle"

\* The call: results = [], used_text_indices = set()
AssocCalled ==
    /\ a_barcodes \in SeqsUpTo(AssocBarcodes, MaxBarcodes)
    /\ a_texts \in {Fragments(bs) : bs \in SeqsUpTo(AssocBoxes, MaxFragments)}
    /\ a_cfg \in AssocConfigs
    /\ a_idx = 1
    /\ a_results = << >>
    /\ a_used = {}
    /\ a_independent = << >>
    /\ a_groups = << >>
    /\ a_pc = "loop"

\* One pass of the outer loop that completes
AssociateBarcode ==
    /\ a_pc = "loop"
    /\ a_idx <= Len(a_barcodes)
    /\ LET st == BarcodeStep([results |-> a_results, used |-> a_used, raised |-> FALSE],
                             a_barcodes[a_idx], a_texts, a_cfg)
       IN  /\ ~st.raised
           /\ a_results' = st.results
           /\ a_used' = st.used
    /\ a_idx' = a_idx + 1
    /\ UNCHANGED <<a_barcodes, a_texts, a_cfg, a_independent, a_groups, a_pc>>
    /\ UNCHANGED <<sortVars, ensVars, pipeVars>>
    /\ UNCHANGED apiVars

\* One pass of the outer loop in which the score computation raises
AssociateBarcodeRaises ==
    /\ a_pc = "loop"
    /\ a_idx <= Len(a_barcodes)
    /\ BarcodeStep([results |-> a_results, used |-> a_used, raised |-> FALSE],
                   a_barcodes[a_idx], a_texts, a_cfg).raised
    /\ a_pc' = "raised"
    /\ UNCHANGED <<a_barcodes, a_texts, a_cfg, a_idx, a_results, a_used, a_independent,
                   a_groups>>
    /\ UNCHANGED <<sortVars, ensVars, pipeVars>>
    /\ UNCHANGED apiVars

\* After the loop: independent_text is built and (results, independent_text) returned
AssociateReturn ==
    /\ a_pc = "loop"
    /\ a_idx > Len(a_barcodes)
    /\ a_independent' = IndependentText(a_texts, a_used)
    /\ a_pc' = "done"
    /\ UNCHANGED <<a_barcodes, a_texts, a_cfg, a_idx, a_results, a_used, a_groups>>
    /\ UNCHANGED <<sortVars, ensVars, pipeVars>>
    /\ UNCHANGED apiVars

AssocNext == AssociateBarcode \/ AssociateBarcodeRaises \/ AssociateReturn

\* The caller hands the returned associations to create_groups
CreateGroups ==
    /\ a_pc = "done"
    /\ a_groups' = create_groups(a_results)
    /\ a_pc' = "grouped"
    /\ UNCHANGED <<a_barcodes, a_texts, a_cfg, a_idx, a_results, a_used, a_independent>>
    /\ UNCHANGED <<sortVars, ensVars, pipeVars>>
    /\ UNCHANGED apiVars

GroupsNext == AssocNext \/ CreateGroups

-----------------------------------------------------------------------------
(* The sorter on its own: inputs drawn from a pool of positioned objects *)

SortBoxes ==
    { Box(0, 0, 0, 0), Box(40, 25, 0, 0), Box(10, 20, 20, 10),
      Box(0, 50, 10, 10), Box(30, 40, 20, 31) }

\* A positioned object, or one with no position at all
SortDicts == {[position |-> b] : b \in SortBoxes} \cup {EmptyDict}

SortOrders == {"reading_order", "top_to_bottom", "left_to_right", "grid_order", "zigzag"}

RowTolerances == {RowToleranceDefault}

\* "id" stands for the identity of the dict object
WithIds(ds) == [i \in DOMAIN ds |-> SetKey(ds[i], "id", i)]

SortIdle ==
    /\ s_objects = << >>
    /\ s_order = "reading_order"
    /\ s_tol = RowToleranceDefault
    /\ s_rows = << >>
    /\ s_sorted = << >>
    /\ s_resorted = << >>
    /\ s_numbered = << >>
    /\ s_pc = "idle"

SortCalled ==
    /\ s_objects \in {WithIds(ds) : ds \in SeqsUpTo(SortDicts, MaxObjects)}
    /\ s_order \in SortOrders
    /\ s_tol \in RowTolerances
    /\ s_rows = << >>
    /\ s_sorted = << >>
    /\ s_resorted = << >>
    /\ s_numbered = << >>
    /\ s_pc = "sort"

\* sorted_objects = order_sorter.sort(objects, order)
CallSort ==
    /\ s_pc = "sort"
    /\ s_sorted' = Sort(s_objects, s_order, s_tol)
    /\ s_rows' = IF s_objects # << >> /\ s_order \notin {"top_to_bottom", "left_to_right"}
                 THEN GroupRows(s_objects, s_tol) ELSE << >>
    /\ s_pc' = "resort"
    /\ UNCHANGED <<s_objects, s_order, s_tol, s_resorted, s_numbered>>
    /\ UNCHANGED <<assocVars, ensVars, pipeVars>>
    /\ UNCHANGED apiVars

\* sort applied to its own output
CallSortAgain ==
    /\ s_pc = "resort"
    /\ s_resorted' = Sort(s_sorted, s_order, s_tol)
    /\ s_pc' = "number"
    /\ UNCHANGED <<s_objects, s_order, s_tol, s_rows, s_sorted, s_numbered>>
    /\ UNCHANGED <<assocVars, ensVars, pipeVars>>
    /\ UNCHANGED apiVars

\* sorted_objects = order_sorter.add_order_numbers(sorted_objects)
CallAddOrderNumbers ==
    /\ s_pc = "number"
    /\ s_numbered' = add_order_numbers(s_sorted)
    /\ s_pc' = "done"
    /\ UNCHANGED <<s_objects, s_order, s_tol, s_rows, s_sorted, s_resorted>>
    /\ UNCHANGED <<assocVars, ensVars, pipeVars>>
    /\ UNCHANGED apiVars

SortNext == CallSort \/ CallSortAgain \/ CallAddOrderNumbers

-----------------------------------------------------------------------------
(* process_image *)

RecognitionModes == {"barcode_only", "ocr_only", "barcode_and_ocr", "ai", "hybrid"}
Depths == {"fast", "balanced", "full"}
PipeSortOrders == {"top_to_bottom", "reading_order"}
ImageDims == {800, 3000}
ElapsedTimes == {0, 12}

AIReady ==
    [enabled |-> TRUE, active_model_id |-> TRUE, model |-> TRUE, provider |-> TRUE,
     provider_enabled |-> TRUE, api_key |-> TRUE]

\* Every configuration of the recognizer: a model exists only under a selected id, a
\* provider only under an existing model, its flag and key only with the provider
AIStates ==
    {ai \in [DOMAIN AIReady -> BOOLEAN] :
        /\ ai.model => ai.active_model_id
        /\ ai.provider => ai.model
        /\ ai.provider_enabled => ai.provider
        /\ ai.api_key => ai.provider}

AIBarcodeEntries ==
    { [data |-> "ABC123", type |-> "CODE128", position |-> Box(0, 0, 100, 50)],
      [data |-> "ABC123", type |-> "CODE128"],
      EmptyDict }

AITextEntries ==
    { [text |-> "LOT-9", position |-> Box(110, 10, 60, 20), confidence |-> 90],
      [text |-> "P/N"] }

AIParsed ==
    {EmptyDict} \cup
    {[barcodes |-> bs, texts |-> ts] :
        bs \in SeqsUpTo(AIBarcodeEntries, MaxBarcodes), ts \in SeqsUpTo(AITextEntries, 1)}

\* What the chat-completion request can come back with
AIReplies ==
    {[kind |-> k, content |-> "", parsed |-> EmptyDict] :
        k \in {"request_failed", "no_choices", "json_not_object"}}
    \cup {[kind |-> "not_json", content |-> "no label found", parsed |-> EmptyDict]}
    \cup {[kind |-> "object", content |-> "", parsed |-> q] : q \in AIParsed}

\* Words of image_to_data, placed in the 2.5x image
OcrWords ==
    { [text |-> "LOT-9", conf |-> 90, left |-> 275, top |-> 25, width |-> 150,
       height |-> 50, level |-> 5],
      [text |-> "P/N", conf |-> 95, left |-> 250, top |-> 125, width |-> 50,
       height |-> 25, level |-> 5],
      [text |-> "LOT-9", conf |-> 88, left |-> 280, top |-> 28, width |-> 150,
       height |-> 50, level |-> 5],
      [text |-> "zz", conf |-> 30, left |-> 100, top |-> 1100, width |-> 50,
       height |-> 25, level |-> 5],
      [text |-> "QTY", conf |-> 80, left |-> 325, top |-> 38, width |-> 50,
       height |-> 25, level |-> 5] }

OcrReplies ==
    {[full_text |-> ft, words |-> ws] :
        ft \in {"", "LOT: 9"}, ws \in SeqsUpTo(OcrWords, MaxFragments)}

PipeIdle ==
    /\ p_mode = "balanced"
    /\ p_recognition_mode = "barcode_only"
    /\ p_sort_order = "top_to_bottom"
    /\ p_image_dim = 800
    /\ p_tesseract = TRUE
    /\ p_ai = AIReady
    /\ p_ocr = EmptyDict
    /\ p_reply = EmptyDict
    /\ p_result = EmptyDict
    /\ p_pc = "idle"

\* The call, up to `result = {...}`; an argument the strategy never reads keeps
\* one value
PipeCalled ==
    /\ p_mode \in Depths
    /\ p_recognition_mode \in RecognitionModes
    /\ p_sort_order \in PipeSortOrders
    /\ p_image_dim \in IF p_recognition_mode \in {"barcode_only", "barcode_and_ocr"}
                       THEN ImageDims ELSE {800}
    /\ p_tesseract \in IF p_recognition_mode \in {"ocr_only", "barcode_and_ocr"}
                       THEN BOOLEAN ELSE {TRUE}
    /\ p_ai \in IF p_recognition_mode = "ai" THEN AIStates ELSE {AIReady}
    /\ p_ocr = EmptyDict
    /\ p_reply = EmptyDict
    /\ p_pc \in {"load", "start"}
    /\ p_result = IF p_pc = "start"
                  THEN InitialResult(p_mode, p_recognition_mode, p_sort_order)
                  ELSE EmptyDict

\* process_image_file: load_image returns None
LoadImageFails ==
    /\ p_pc = "load"
    /\ p_result' = LoadFailure
    /\ p_pc' = "returned"
    /\ UNCHANGED <<p_mode, p_recognition_mode, p_sort_order, p_image_dim, p_tesseract,
                   p_ai, p_ocr, p_reply>>
    /\ UNCHANGED <<sortVars, assocVars, ensVars>>
    /\ UNCHANGED apiVars

\* process_image_file: the image is loaded and handed to process_image
LoadImageSucceeds ==
    /\ p_pc = "load"
    /\ p_result' = InitialResult(p_mode, p_recognition_mode, p_sort_order)
    /\ p_pc' = "start"
    /\ UNCHANGED <<p_mode, p_recognition_mode, p_sort_order, p_image_dim, p_tesseract,
                   p_ai, p_ocr, p_reply>>
    /\ UNCHANGED <<sortVars, assocVars, ensVars>>
    /\ UNCHANGED apiVars

\* str(e) of an exception raised by preprocess
PreprocessError == "preprocess failed"

\* process_image: preprocess raises inside the try block
PreprocessRaises ==
    /\ p_pc = "start"
    /\ \E elapsed \in ElapsedTimes :
          p_result' = Failed(p_result, PreprocessError, elapsed)
    /\ p_pc' = "returned"
    /\ UNCHANGED <<p_mode, p_recognition_mode, p_sort_order, p_image_dim, p_tesseract,
                   p_ai, p_ocr, p_reply>>
    /\ UNCHANGED <<sortVars, assocVars, ensVars>>
    /\ UNCHANGED apiVars

\* ai: is_available() is false
AIUnavailable ==
    /\ p_pc = "start"
    /\ p_recognition_mode = "ai"
    /\ ~is_available(p_ai)
    /\ \E elapsed \in ElapsedTimes :
          p_result' = Failed(p_result, UnavailableCause(p_ai), elapsed)
    /\ p_pc' = "returned"
    /\ UNCHANGED <<p_mode, p_recognition_mode, p_sort_order, p_image_dim, p_tesseract,
                   p_ai, p_ocr, p_reply>>
    /\ UNCHANGED <<sortVars, assocVars, ensVars>>
    /\ UNCHANGED apiVars

\* ai: recognize raises
AIRecognizeRaises ==
    /\ p_pc = "start"
    /\ p_recognition_mode = "ai"
    /\ is_available(p_ai)
    /\ \E reply \in AIReplies, elapsed \in ElapsedTimes :
          /\ RecognizeRaises(reply)
          /\ p_reply' = reply
          /\ p_result' = Failed(p_result, "AI recognition failed: " \o reply.kind, elapsed)
    /\ p_pc' = "returned"
    /\ UNCHANGED <<p_mode, p_recognition_mode, p_sort_order, p_image_dim, p_tesseract,
                   p_ai, p_ocr>>
    /\ UNCHANGED <<sortVars, assocVars, ensVars>>
    /\ UNCHANGED apiVars

\* ai: recognize returns; merge, sort, number
AIRecognizeReturns ==
    /\ p_pc = "start"
    /\ p_recognition_mode = "ai"
    /\ is_available(p_ai)
    /\ \E reply \in AIReplies, elapsed \in ElapsedTimes :
          /\ ~RecognizeRaises(reply)
          /\ p_reply' = reply
          /\ p_result' = AiResult(p_result, Recognize(reply), p_sort_order, elapsed)
    /\ p_pc' = "returned"
    /\ UNCHANGED <<p_mode, p_recognition_mode, p_sort_order, p_image_dim, p_tesseract,
                   p_ai, p_ocr>>
    /\ UNCHANGED <<sortVars, assocVars, ensVars>>
    /\ UNCHANGED apiVars

\* barcode_only, barcode_and_ocr: preprocess, then barcode_detector.detect is called
\* on the preprocessed image
StartDetect ==
    /\ p_pc = "start"
    /\ p_recognition_mode \in {"barcode_only", "barcode_and_ocr"}
    /\ e_small' = (ResizedDim(p_image_dim) < UpscaleLimit)
    /\ e_try' = 1
    /\ e_barcodes' = << >>
    /\ e_all' = << >>
    /\ e_detected' = {}
    /\ e_pc' = "run"
    /\ p_pc' = "detect"
    /\ UNCHANGED <<p_mode, p_recognition_mode, p_sort_order, p_image_dim, p_tesseract,
                   p_ai, p_ocr, p_reply, p_result>>
    /\ UNCHANGED <<sortVars, assocVars>>
    /\ UNCHANGED apiVars

\* The locals of decode_with_enhancement are gone once it is left
EnsLeft ==
    /\ e_small' = FALSE
    /\ e_try' = 1
    /\ e_barcodes' = << >>
    /\ e_all' = << >>
    /\ e_detected' = {}
    /\ e_pc' = "idle"

\* detect raised: the except clause of process_image
DetectRaises ==
    /\ p_pc = "detect"
    /\ e_pc = "raised"
    /\ \E elapsed \in ElapsedTimes :
          p_result' = Failed(p_result, "cv2.error", elapsed)
    /\ p_pc' = "returned"
    /\ EnsLeft
    /\ UNCHANGED <<p_mode, p_recognition_mode, p_sort_order, p_image_dim, p_tesseract,
                   p_ai, p_ocr, p_reply>>
    /\ UNCHANGED <<sortVars, assocVars>>
    /\ UNCHANGED apiVars

\* barcode_only: sort, number, results
BarcodeOnlyReturns ==
    /\ p_pc = "detect"
    /\ e_pc = "returned"
    /\ p_recognition_mode = "barcode_only"
    /\ \E elapsed \in ElapsedTimes :
          p_result' = [p_result EXCEPT
                          !.results = BarcodeResults(SortAndNumber(e_all, p_sort_order)),
                          !.process_time = elapsed]
    /\ p_pc' = "returned"
    /\ EnsLeft
    /\ UNCHANGED <<p_mode, p_recognition_mode, p_sort_order, p_image_dim, p_tesseract,
                   p_ai, p_ocr, p_reply>>
    /\ UNCHANGED <<sortVars, assocVars>>
    /\ UNCHANGED apiVars

\* barcode_and_ocr at depth fast, or without Tesseract: barcodes only
BarcodesWithoutOcr ==
    /\ p_pc = "detect"
    /\ e_pc = "returned"
    /\ p_recognition_mode = "barcode_and_ocr"
    /\ p_mode = "fast" \/ ~p_tesseract
    /\ \E elapsed \in ElapsedTimes :
          p_result' = [p_result EXCEPT
                          !.results = BarcodeResults(SortAndNumber(e_all, p_sort_order)),
                          !.process_time = elapsed]
    /\ p_pc' = "returned"
    /\ EnsLeft
    /\ UNCHANGED <<p_mode, p_recognition_mode, p_sort_order, p_image_dim, p_tesseract,
                   p_ai, p_ocr, p_reply>>
    /\ UNCHANGED <<sortVars, assocVars>>
    /\ UNCHANGED apiVars

\* barcode_and_ocr at depth balanced or full: recognize_full on the raw image, then
\* associate_text_with_barcodes is called
RecognizeAndAssociate ==
    /\ p_pc = "detect"
    /\ e_pc = "returned"
    /\ p_recognition_mode = "barcode_and_ocr"
    /\ ~(p_mode = "fast" \/ ~p_tesseract)
    /\ p_mode \in {"balanced", "full"}
    /\ \E ocr \in OcrReplies :
          /\ p_ocr' = recognize_full(ocr)
          /\ a_texts' = recognize_full(ocr).text_regions
    /\ a_barcodes' = e_all
    /\ a_cfg' = DefaultConfig
    /\ a_idx' = 1
    /\ a_results' = << >>
    /\ a_used' = {}
    /\ a_independent' = << >>
    /\ a_groups' = << >>
    /\ a_pc' = "loop"
    /\ p_pc' = "associate"
    /\ EnsLeft
    /\ UNCHANGED <<p_mode, p_recognition_mode, p_sort_order, p_image_dim, p_tesseract,
                   p_ai, p_reply, p_result>>
    /\ UNCHANGED sortVars
    /\ UNCHANGED apiVars

\* The locals of associate_text_with_barcodes are gone once it is left
AssocLeft ==
    /\ a_barcodes' = << >>
    /\ a_texts' = << >>
    /\ a_cfg' = DefaultConfig
    /\ a_idx' = 1
    /\ a_results' = << >>
    /\ a_used' = {}
    /\ a_independent' = << >>
    /\ a_groups' = << >>
    /\ a_pc' = "idle"

\* The analyzer raised: the except clause of process_image
AssociationRaises ==
    /\ p_pc = "associate"
    /\ a_pc = "raised"
    /\ \E elapsed \in ElapsedTimes :
          p_result' = Failed(p_result, "float division by zero", elapsed)
    /\ p_pc' = "returned"
    /\ AssocLeft
    /\ UNCHANGED <<p_mode, p_recognition_mode, p_sort_order, p_image_dim, p_tesseract,
                   p_ai, p_ocr, p_reply>>
    /\ UNCHANGED <<sortVars, ensVars>>
    /\ UNCHANGED apiVars

\* barcode_and_ocr at depth balanced or full: merge, sort, number, results
MixedReturns ==
    /\ p_pc = "associate"
    /\ a_pc = "done"
    /\ \E elapsed \in ElapsedTimes :
          LET mixed_objects == IF p_mode = "balanced"
                               THEN BalancedMixedObjects(a_results, a_independent)
                               ELSE FullMixedObjects(a_results, a_independent)
              base == SetKey([p_result EXCEPT
                                 !.results = SortAndNumber(mixed_objects, p_sort_order),
                                 !.process_time = elapsed],
                             "structured_fields", p_ocr.structured_fields)
          IN  p_result' = IF p_mode = "full"
                          THEN SetKey(base, "full_text", p_ocr.full_text)
                          ELSE base
    /\ p_pc' = "returned"
    /\ AssocLeft
    /\ UNCHANGED <<p_mode, p_recognition_mode, p_sort_order, p_image_dim, p_tesseract,
                   p_ai, p_ocr, p_reply>>
    /\ UNCHANGED <<sortVars, ensVars>>
    /\ UNCHANGED apiVars

\* ocr_only without Tesseract
OcrUnavailable ==
    /\ p_pc = "start"
    /\ p_recognition_mode = "ocr_only"
    /\ ~p_tesseract
    /\ \E elapsed \in ElapsedTimes :
          p_result' = Failed(p_result, "OCR unavailable, install Tesseract OCR", elapsed)
    /\ p_pc' = "returned"
    /\ UNCHANGED <<p_mode, p_recognition_mode, p_sort_order, p_image_dim, p_tesseract,
                   p_ai, p_ocr, p_reply>>
    /\ UNCHANGED <<sortVars, assocVars, ensVars>>
    /\ UNCHANGED apiVars

\* ocr_only: recognize_full on the raw image (the same call at every depth), sort,
\* number, results
OcrOnlyReturns ==
    /\ p_pc = "start"
    /\ p_recognition_mode = "ocr_only"
    /\ p_tesseract
    /\ \E ocr \in OcrReplies, elapsed \in ElapsedTimes :
          /\ p_ocr' = recognize_full(ocr)
          /\ p_result' = OcrOnlyResult(p_result, recognize_full(ocr), p_sort_order,
                                       p_mode, elapsed)
    /\ p_pc' = "returned"
    /\ UNCHANGED <<p_mode, p_recognition_mode, p_sort_order, p_image_dim, p_tesseract, p_ai,
                   p_reply>>
    /\ UNCHANGED <<sortVars, assocVars, ensVars>>
    /\ UNCHANGED apiVars

\* An unknown strategy handled as barcode_only: the detector is started.
UnknownStrategyDetects ==
    /\ p_pc = "start"
    /\ p_recognition_mode \notin {"ai", "barcode_only", "ocr_only", "barcode_and_ocr"}
    /\ e_small' = (ResizedDim(p_image_dim) < UpscaleLimit)
    /\ e_try' = 1
    /\ e_barcodes' = << >>
    /\ e_all' = << >>
    /\ e_detected' = {}
    /\ e_pc' = "run"
    /\ p_pc' = "detect"
    /\ UNCHANGED <<p_mode, p_recognition_mode, p_sort_order, p_image_dim, p_tesseract,
                   p_ai, p_ocr, p_reply, p_result>>
    /\ UNCHANGED <<sortVars, assocVars>>
    /\ UNCHANGED apiVars

\* No branch of the if/elif chain matches recognition_mode
UnknownStrategyReturns ==
    /\ p_pc = "start"
    /\ p_recognition_mode \notin {"ai", "barcode_only", "ocr_only", "barcode_and_ocr"}
    /\ \E elapsed \in ElapsedTimes :
          p_result' = [p_result EXCEPT !.process_time = elapsed]
    /\ p_pc' = "returned"
    /\ UNCHANGED <<p_mode, p_recognition_mode, p_sort_order, p_image_dim, p_tesseract,
                   p_ai, p_ocr, p_reply>>
    /\ UNCHANGED <<sortVars, assocVars, ensVars>>
    /\ UNCHANGED apiVars

PipeNext ==
    \/ LoadImageFails \/ LoadImageSucceeds \/ PreprocessRaises
    \/ AIUnavailable \/ AIRecognizeRaises \/ AIRecognizeReturns
    \/ StartDetect \/ DetectRaises \/ BarcodeOnlyReturns \/ BarcodesWithoutOcr
    \/ RecognizeAndAssociate \/ AssociationRaises \/ MixedReturns
    \/ OcrUnavailable \/ OcrOnlyReturns \/ UnknownStrategyReturns

-----------------------------------------------------------------------------
(* The HTTP endpoints of main.py: one request, and update_ai_config calls.  *)
(* Every handler is `async def` on the single event loop of uvicorn.run and *)
(* calls the processor without await: between two awaits or yields no other *)
(* coroutine runs.                                                          *)

MaxImages == 2
MaxChunks == 3
MaxUpdates == 2

reqArgs == <<r_endpoint, r_ai, r_images>>
cfgVars == <<g_recognizer, g_available>>
coreVars == <<sortVars, assocVars, ensVars, pipeVars>>

\* A coroutine runs whenever the event loop schedules it, as if nothing else were
\* running (handlers in a thread pool)
LoopIgnored(running) == TRUE

\* A coroutine is scheduled only while no other coroutine is between two awaits
LoopFree(running) == ~running

ApiIdle ==
    /\ r_endpoint = "single"
    /\ r_ai = FALSE
    /\ r_images = 1
    /\ r_index = 1
    /\ r_files = {}
    /\ r_seen = {}
    /\ r_chunks = << >>
    /\ r_lines = << >>
    /\ r_events = << >>
    /\ r_running = FALSE
    /\ r_pc = "idle"
    /\ g_recognizer = 0
    /\ g_available = FALSE

\* A request has arrived; its handler has not run yet
ApiCalled ==
    /\ r_endpoint \in {"single", "stream", "batch"}
    /\ r_ai \in IF r_endpoint = "batch" THEN {FALSE} ELSE BOOLEAN
    /\ r_images \in IF r_endpoint = "batch" THEN 1..MaxImages ELSE {1}
    /\ r_index = 1
    /\ r_files = {}
    /\ r_seen = {}
    /\ r_chunks = << >>
    /\ r_lines = << >>
    /\ r_events = << >>
    /\ r_running = FALSE
    /\ r_pc = "pending"
    /\ g_recognizer = 0
    /\ g_available \in BOOLEAN

\* The handler is left (single, stream) or goes on with the next image (batch)
ImageDone ==
    IF r_endpoint = "batch" /\ r_index < r_images
    THEN /\ r_index' = r_index + 1
         /\ r_pc' = "validate"
         /\ r_running' = TRUE
    ELSE /\ r_index' = r_index
         /\ r_pc' = "over"
         /\ r_running' = FALSE

\* The event loop enters the handler
StartHandler ==
    /\ r_pc = "pending"
    /\ r_pc' = "validate"
    /\ r_running' = TRUE
    /\ UNCHANGED <<reqArgs, r_index, r_files, r_seen, r_chunks, r_lines, r_events, cfgVars>>
    /\ UNCHANGED coreVars

\* The stream endpoint refuses a strategy other than ai; every endpoint refuses a
\* file extension that is not allowed
RejectUpload ==
    /\ r_pc = "validate"
    /\ ImageDone
    /\ UNCHANGED <<reqArgs, r_files, r_seen, r_chunks, r_lines, r_events, cfgVars>>
    /\ UNCHANGED coreVars

\* open(temp_file, "wb") and shutil.copyfileobj succeed
WriteTemp ==
    /\ r_pc = "validate"
    /\ r_endpoint = "stream" => r_ai
    /\ r_files' = r_files \cup {r_index}
    /\ IF r_endpoint = "stream"
       THEN r_pc' = "response" /\ r_running' = FALSE   \* StreamingResponse returned
       ELSE r_pc' = "process" /\ r_running' = TRUE
    /\ UNCHANGED <<reqArgs, r_index, r_seen, r_chunks, r_lines, r_events, cfgVars>>
    /\ UNCHANGED coreVars

\* open raises (no file) or copyfileobj raises (the file exists): the write is
\* outside the try whose finally deletes the file
WriteFails ==
    /\ r_pc = "validate"
    /\ r_endpoint = "stream" => r_ai
    /\ \E created \in BOOLEAN :
          r_files' = IF created THEN r_files \cup {r_index} ELSE r_files
    /\ ImageDone
    /\ UNCHANGED <<reqArgs, r_seen, r_chunks, r_lines, r_events, cfgVars>>
    /\ UNCHANGED coreVars

\* process_image_file under a strategy other than ai, or up to a load or preprocess
\* failure: it returns or raises without touching the recognizer
ProcessImageFile ==
    /\ r_pc = "process"
    /\ r_pc' = "cleanup"
    /\ UNCHANGED <<reqArgs, r_index, r_files, r_seen, r_chunks, r_lines, r_events, r_running, cfgVars>>
    /\ UNCHANGED coreVars

\* process_image, ai: self.ai_recognizer.is_available()
AICheck ==
    /\ r_pc = "process"
    /\ r_ai
    /\ r_seen' = r_seen \cup {g_recognizer}
    /\ r_pc' = IF g_available THEN "request" ELSE "diagnose"
    /\ UNCHANGED <<reqArgs, r_index, r_files, r_chunks, r_lines, r_events, r_running, cfgVars>>
    /\ UNCHANGED coreVars

\* process_image, ai: the diagnosis reads self.ai_recognizer again, then raises
AIDiagnose ==
    /\ r_pc = "diagnose"
    /\ r_seen' = r_seen \cup {g_recognizer}
    /\ r_pc' = "cleanup"
    /\ UNCHANGED <<reqArgs, r_index, r_files, r_chunks, r_lines, r_events, r_running, cfgVars>>
    /\ UNCHANGED coreVars

\* process_image, ai: self.ai_recognizer.recognize(image) returns or raises
AIRequest ==
    /\ r_pc = "request"
    /\ r_seen' = r_seen \cup {g_recognizer}
    /\ r_pc' = "cleanup"
    /\ UNCHANGED <<reqArgs, r_index, r_files, r_chunks, r_lines, r_events, r_running, cfgVars>>
    /\ UNCHANGED coreVars

\* finally: if temp_file.exists(): temp_file.unlink()
Cleanup ==
    /\ r_pc = "cleanup"
    /\ r_files' = r_files \ {r_index}
    /\ ImageDone
    /\ UNCHANGED <<reqArgs, r_seen, r_chunks, r_lines, r_events, cfgVars>>
    /\ UNCHANGED coreVars

\* The lines an engine may send: a chunk with a text delta, a chunk whose delta has no
\* content (the role), a line that does not start with 'data: ', a data line that is
\* no JSON, the sentinel, and a JSON chunk whose `choices` is empty
EngineLines ==
    { [kind |-> "content", content |-> "LOT"],
      [kind |-> "content", content |-> "-9"],
      [kind |-> "role", content |-> ""],
      [kind |-> "not_data", content |-> ""],
      [kind |-> "not_json", content |-> ""],
      [kind |-> "done", content |-> ""],
      [kind |-> "no_choices", content |-> ""] }

\* _stream_response resumed with these lines left: what it does up to its next yield.
\* kind "yield" (with the content and the lines left), "end" (break or exhausted) or
\* "raise" (chunk['choices'][0] of an empty list)
RECURSIVE StreamResponse(_)
StreamResponse(lines) ==
    IF lines = << >> THEN [kind |-> "end", content |-> "", rest |-> << >>]
    ELSE LET line == Head(lines)
         IN  CASE line.kind = "done" -> [kind |-> "end", content |-> "", rest |-> Tail(lines)]
               [] line.kind = "content" ->
                    [kind |-> "yield", content |-> line.content, rest |-> Tail(lines)]
               [] line.kind = "no_choices" ->
                    [kind |-> "raise", content |-> "", rest |-> Tail(lines)]
               [] OTHER -> StreamResponse(Tail(lines))

\* f"data: {json.dumps({...})}\n\n", by the key and value of the object sent
Event(key, value) == [key |-> key, value |-> value]

\* The response is consumed: stream_generator is started. cv2.imread
GenStarts ==
    /\ r_pc = "response"
    /\ \E readable \in BOOLEAN :
          IF readable
          THEN r_pc' = "gen_check" /\ r_running' = TRUE /\ r_events' = r_events
          ELSE /\ r_pc' = "gen_last" /\ r_running' = FALSE      \* yield the error
               /\ r_events' = Append(r_events, Event("error", "cannot read image"))
    /\ UNCHANGED <<reqArgs, r_index, r_files, r_seen, r_chunks, r_lines, cfgVars>>
    /\ UNCHANGED coreVars

\* The client is gone before the generator is started: its body never runs
DisconnectBeforeStart ==
    /\ r_pc = "response"
    /\ r_pc' = "over"
    /\ UNCHANGED <<reqArgs, r_index, r_files, r_seen, r_chunks, r_lines, r_events, r_running,
                   cfgVars>>
    /\ UNCHANGED coreVars

\* stream_generator: `not label_processor.ai_recognizer`
GenReadRecognizer ==
    /\ r_pc = "gen_check"
    /\ r_seen' = r_seen \cup {g_recognizer}
    /\ r_pc' = "gen_available"
    /\ UNCHANGED <<reqArgs, r_index, r_files, r_chunks, r_lines, r_events, r_running, cfgVars>>
    /\ UNCHANGED coreVars

\* stream_generator: `not label_processor.ai_recognizer.is_available()`
GenIsAvailable ==
    /\ r_pc = "gen_available"
    /\ r_seen' = r_seen \cup {g_recognizer}
    /\ IF g_available
       THEN r_pc' = "gen_request" /\ r_running' = TRUE /\ r_events' = r_events
       ELSE /\ r_pc' = "gen_last" /\ r_running' = FALSE         \* yield the error
            /\ r_events' = Append(r_events, Event("error", "AI recognition unavailable"))
    /\ UNCHANGED <<reqArgs, r_index, r_files, r_chunks, r_lines, cfgVars>>
    /\ UNCHANGED coreVars

\* stream_generator: label_processor.ai_recognizer.recognize(img, stream=True)
GenRequest ==
    /\ r_pc = "gen_request"
    /\ r_seen' = r_seen \cup {g_recognizer}
    /\ \E raised \in BOOLEAN :
          IF raised
          THEN r_pc' = "gen_finally" /\ r_lines' = << >>
          ELSE r_pc' = "gen_loop" /\ r_lines' \in SeqsUpTo(EngineLines, MaxChunks)
    /\ r_chunks' = r_lines'
    /\ UNCHANGED <<reqArgs, r_index, r_files, r_events, r_running, cfgVars>>
    /\ UNCHANGED coreVars

\* for chunk in stream_gen: yield f"data: {json.dumps({'content': chunk})}\n\n"
GenYieldChunk ==
    /\ r_pc = "gen_loop"
    /\ StreamResponse(r_chunks).kind = "yield"
    /\ r_events' = Append(r_events, Event("content", StreamResponse(r_chunks).content))
    /\ r_chunks' = StreamResponse(r_chunks).rest
    /\ r_pc' = "gen_yielded"
    /\ r_running' = FALSE
    /\ UNCHANGED <<reqArgs, r_index, r_files, r_seen, r_lines, cfgVars>>
    /\ UNCHANGED coreVars

\* The loop is over: yield "data: [DONE]\n\n"
GenYieldDone ==
    /\ r_pc = "gen_loop"
    /\ StreamResponse(r_chunks).kind = "end"
    /\ r_events' = Append(r_events, Event("data", "[DONE]"))
    /\ r_chunks' = StreamResponse(r_chunks).rest
    /\ r_pc' = "gen_last"
    /\ r_running' = FALSE
    /\ UNCHANGED <<reqArgs, r_index, r_files, r_seen, r_lines, cfgVars>>
    /\ UNCHANGED coreVars

\* _stream_response raises (only json.JSONDecodeError is caught): the exception leaves
\* the for loop of stream_generator
GenStreamRaises ==
    /\ r_pc = "gen_loop"
    /\ StreamResponse(r_chunks).kind = "raise"
    /\ r_chunks' = StreamResponse(r_chunks).rest
    /\ r_pc' = "gen_finally"
    /\ UNCHANGED <<reqArgs, r_index, r_files, r_seen, r_lines, r_events, r_running, cfgVars>>
    /\ UNCHANGED coreVars

\* The generator is resumed after a yield: the next chunk, or its end
GenResume ==
    /\ r_pc \in {"gen_yielded", "gen_last"}
    /\ r_pc' = IF r_pc = "gen_yielded" THEN "gen_loop" ELSE "gen_finally"
    /\ r_running' = TRUE
    /\ UNCHANGED <<reqArgs, r_index, r_files, r_seen, r_chunks, r_lines, r_events, cfgVars>>
    /\ UNCHANGED coreVars

\* The client is gone while the generator is suspended at a yield: the generator
\* is closed, which raises GeneratorExit at the yield
DisconnectWhileStreaming ==
    /\ r_pc \in {"gen_yielded", "gen_last"}
    /\ r_pc' = "gen_closed"
    /\ r_running' = TRUE
    /\ UNCHANGED <<reqArgs, r_index, r_files, r_seen, r_chunks, r_lines, r_events, cfgVars>>
    /\ UNCHANGED coreVars

\* stream_generator, finally: if temp_file.exists(): temp_file.unlink()
GenFinally ==
    /\ r_pc \in {"gen_finally", "gen_closed"}
    /\ r_files' = r_files \ {r_index}
    /\ r_pc' = "over"
    /\ r_running' = FALSE
    /\ UNCHANGED <<reqArgs, r_index, r_seen, r_chunks, r_lines, r_events, cfgVars>>
    /\ UNCHANGED coreVars

\* update_ai_config: label_processor.ai_recognizer = AIRecognizer(...)
UpdateAIConfig ==
    /\ LoopFree(r_running)
    /\ g_recognizer < MaxUpdates
    /\ g_recognizer' = g_recognizer + 1
    /\ g_available' \in BOOLEAN
    /\ UNCHANGED <<reqArgs, r_index, r_files, r_seen, r_chunks, r_lines, r_events, r_running, r_pc>>
    /\ UNCHANGED coreVars

ApiNext ==
    \/ StartHandler \/ RejectUpload \/ WriteTemp \/ WriteFails
    \/ ProcessImageFile \/ AICheck \/ AIDiagnose \/ AIRequest \/ Cleanup
    \/ GenStarts \/ DisconnectBeforeStart \/ GenReadRecognizer \/ GenIsAvailable
    \/ GenRequest \/ GenYieldChunk \/ GenYieldDone \/ GenStreamRaises \/ GenResume
    \/ DisconnectWhileStreaming \/ GenFinally
    \/ UpdateAIConfig

-----------------------------------------------------------------------------
(* Specifications *)

\* process_image, with the detector and the analyzer it calls
Init == SortIdle /\ AssocIdle /\ EnsIdle /\ PipeCalled /\ ApiIdle
Next == PipeNext \/ EnsNext \/ AssocNext
Spec == Init /\ [][Next]_vars

\* OrderSorter alone
InitSort == SortCalled /\ AssocIdle /\ EnsIdle /\ PipeIdle /\ ApiIdle
SpecSort == InitSort /\ [][SortNext]_vars

\* AssociationAnalyzer alone
InitAssoc == SortIdle /\ AssocCalled /\ EnsIdle /\ PipeIdle /\ ApiIdle
SpecAssoc == InitAssoc /\ [][AssocNext]_vars

\* The analyzer followed by create_groups
SpecGroups == InitAssoc /\ [][GroupsNext]_vars

\* BarcodeDetector.decode_with_enhancement alone
InitEnsemble == SortIdle /\ AssocIdle /\ EnsCalled /\ PipeIdle /\ ApiIdle
SpecEnsemble == InitEnsemble /\ [][EnsNext]_vars

\* One request to main.py, with update_ai_config calls around and inside it
InitApi == SortIdle /\ AssocIdle /\ EnsIdle /\ PipeIdle /\ ApiCalled
SpecApi == InitApi /\ [][ApiNext]_vars

\* add_order_numbers called on any list, or process_image called
InitNumbering == InitSort \/ Init
NextNumbering == SortNext \/ Next
SpecNumbering == InitNumbering /\ [][NextNumbering]_vars

-----------------------------------------------------------------------------
(* Properties *)

Payloads(bcs) == {bcs[i].barcode_data : i \in DOMAIN bcs}

DistinctPayloads(bcs) ==
    \A i, j \in DOMAIN bcs : bcs[i].barcode_data = bcs[j].barcode_data => i = j

IsPrefix(s, t) == Len(s) <= Len(t) /\ SubSeq(t, 1, Len(s)) = s

\* C1: whatever the decoder returns for each variant, the merged list of
\* decode_with_enhancement never holds a payload twice, holds every payload the
\* variant just decoded, and only grows; so the returned list holds each decoded
\* payload exactly once.
C1_EnsembleDedup ==
    /\ [](DistinctPayloads(e_all) /\ Payloads(e_barcodes) \subseteq Payloads(e_all))
    /\ [][IsPrefix(e_all, e_all')]_vars

\* The last variant returned one payload twice, and an earlier variant had found that
\* payload at another place
C1_Witness ==
    /\ e_pc = "returned"
    /\ Len(e_barcodes) = 2
    /\ e_barcodes[1].barcode_data = e_barcodes[2].barcode_data
    /\ \E i \in DOMAIN e_all :
          /\ e_all[i].barcode_data = e_barcodes[1].barcode_data
          /\ \A k \in DOMAIN e_barcodes :
                e_all[i].position \notin {e_barcodes[k].position,
                                          Downscaled(e_barcodes[k]).position}

\* Fragment i is recorded under result b with this relation type
HeldAs(b, i, relation_type) ==
    \E k \in DOMAIN a_results[b].related_text :
        /\ a_results[b].related_text[k].text = a_texts[i].text
        /\ a_results[b].related_text[k].position = a_texts[i].position
        /\ a_results[b].related_text[k].relation_type = relation_type

Holders(i, relation_type) == {b \in DOMAIN a_results : HeldAs(b, i, relation_type)}

\* C2: at every point of associate_text_with_barcodes, for every barcode list,
\* fragment list and configuration, no fragment is held as 'strong' by two barcodes.
C2_StrongExclusivity ==
    \A i \in DOMAIN a_texts : Cardinality(Holders(i, "strong")) <= 1

\* One fragment is held strong by the first barcode though it scores strong for the
\* second one too, and another fragment is held weak by both
C2_Witness ==
    /\ a_pc = "done"
    /\ Len(a_barcodes) = 2
    /\ \E i \in DOMAIN a_texts :
          /\ Holders(i, "strong") = {1}
          /\ ~ScoreRaises(a_barcodes[2], a_texts[i], a_cfg)
          /\ AssociationScore(a_barcodes[2], a_texts[i], a_cfg) >= a_cfg.strong_threshold
    /\ \E j \in DOMAIN a_texts : Holders(j, "weak") = {1, 2}

OrdersOf(objs) == [i \in DOMAIN objs |-> objs[i].order]

\* C3: the list add_order_numbers returns carries the orders 1, 2, ..., N in list
\* order, N its length, and so does the result list of every successful run of
\* process_image.
C3_OrderPermutation ==
    /\ s_pc = "done" =>
          /\ Len(s_numbered) = Len(s_objects)
          /\ OrdersOf(s_numbered) = [i \in 1..Len(s_objects) |-> i]
    /\ (p_pc = "returned" /\ p_result.success) =>
          OrdersOf(p_result.results) = [i \in 1..Len(p_result.results) |-> i]

\* A successful run whose result list mixes barcodes and text
C3_Witness ==
    /\ p_pc = "returned"
    /\ p_result.success
    /\ Len(p_result.results) = 3
    /\ \E i, j \in DOMAIN p_result.results :
          p_result.results[i].type = "barcode" /\ p_result.results[j].type = "text"

\* C4: for every barcode already processed, every fragment and every configuration
\* (weak_threshold <= 0 included), a fragment whose centre lies beyond
\* width * multiplier of the barcode's centre scores 0 and is not recorded under
\* that barcode.
C4_RadiusCutoff ==
    \A b \in DOMAIN a_results, i \in DOMAIN a_texts :
        BeyondRadius(a_results[b].barcode, a_texts[i], a_cfg) =>
            /\ AssociationScore(a_results[b].barcode, a_texts[i], a_cfg) = 0
            /\ ~HeldAs(b, i, "strong")
            /\ ~HeldAs(b, i, "weak")

RECURSIVE Flatten(_)
Flatten(rows) == IF rows = << >> THEN << >> ELSE Head(rows) \o Flatten(Tail(rows))

RECURSIVE RowStart(_, _)
\* Where row r starts in the concatenation of the rows
RowStart(rows, r) == IF r = 1 THEN 1 ELSE RowStart(rows, r - 1) + Len(rows[r - 1])

RowOf(rows, k) ==
    CHOOSE r \in DOMAIN rows : RowStart(rows, r) <= k /\ k < RowStart(rows, r) + Len(rows[r])

YCenters2(objs) == [i \in DOMAIN objs |-> 2 * Get(Get(objs[i], "position", EmptyDict), "y", 0)
                                          + Get(Get(objs[i], "position", EmptyDict), "height", 0)]

RowsBuilt == s_pc # "sort" /\ s_objects # << >> /\ s_order \notin {"top_to_bottom", "left_to_right"}

\* C5: the rows of sort_reading_order hold the objects in ascending y-centre, no row is
\* empty, and the k-th object is in the row of the one before it iff its y-centre is
\* within row_tolerance of the y-centre of that row's first member (centres doubled);
\* y-centres 0, 25, 55 with tolerance 30 give the rows {0, 25} and {55}.
C5_RowAnchor ==
    RowsBuilt =>
        LET ys == YCenters2(Flatten(s_rows))
        IN  /\ Len(ys) = Len(s_objects)
            /\ \A r \in DOMAIN s_rows : s_rows[r] # << >>
            /\ \A k \in 2..Len(ys) :
                  /\ ys[k - 1] <= ys[k]
                  /\ (RowOf(s_rows, k) = RowOf(s_rows, k - 1))
                        <=> (Abs(ys[k] - ys[RowStart(s_rows, RowOf(s_rows, k - 1))])
                                <= 2 * s_tol)
            /\ (YCenters2(s_objects) = <<0, 50, 110>> /\ s_tol = 30) =>
                  /\ Len(s_rows) = 2
                  /\ YCenters2(s_rows[1]) = <<0, 50>>
                  /\ YCenters2(s_rows[2]) = <<110>>

\* The chain 0, 25, 55 under tolerance 30, grouped by sort_reading_order
C5_Witness ==
    /\ s_pc = "done"
    /\ s_order = "reading_order"
    /\ s_tol = 30
    /\ YCenters2(s_objects) = <<0, 50, 110>>
    /\ Len(s_rows) = 2

KeyOf(obj, order) ==
    LET pos == Get(obj, "position", EmptyDict)
    IN  IF order = "top_to_bottom" THEN 2 * Get(pos, "y", 0) + Get(pos, "height", 0)
        ELSE 2 * Get(pos, "x", 0) + Get(pos, "width", 0)

\* C6: under each of the four order modes, sorting the sorted list again gives the same
\* sequence; under top_to_bottom and left_to_right the output is the input in ascending
\* key, objects of equal key in their input order ("id" is the input position).
C6_SortIdempotentStable ==
    /\ (s_pc \in {"number", "done"}
          /\ s_order \in {"reading_order", "top_to_bottom", "left_to_right", "grid_order"})
       => s_resorted = s_sorted
    /\ (s_pc # "sort" /\ s_order \in {"top_to_bottom", "left_to_right"}) =>
          /\ Len(s_sorted) = Len(s_objects)
          /\ \A i \in DOMAIN s_sorted : s_sorted[i] = s_objects[s_sorted[i].id]
          /\ \A i, j \in DOMAIN s_sorted :
                i < j =>
                    \/ KeyOf(s_sorted[i], s_order) < KeyOf(s_sorted[j], s_order)
                    \/ /\ KeyOf(s_sorted[i], s_order) = KeyOf(s_sorted[j], s_order)
                       /\ s_sorted[i].id < s_sorted[j].id

\* A sort that moved objects and met two different boxes of equal key
C6_Witness ==
    /\ s_pc = "done"
    /\ s_order = "top_to_bottom"
    /\ s_sorted # s_objects
    /\ \E i, j \in DOMAIN s_sorted :
          /\ i < j
          /\ KeyOf(s_sorted[i], s_order) = KeyOf(s_sorted[j], s_order)
          /\ "position" \in DOMAIN s_sorted[i] /\ "position" \in DOMAIN s_sorted[j]
          /\ s_sorted[i].position # s_sorted[j].position

\* Twice the offset from the barcode's centre to the fragment's centre
Offset2(barcode_pos, text_pos) ==
    <<(2 * text_pos.x + text_pos.width) - (2 * barcode_pos.x + barcode_pos.width),
      (2 * text_pos.y + text_pos.height) - (2 * barcode_pos.y + barcode_pos.height)>>

\* C7: for every barcode and fragment handed to the analyzer, _get_direction gives
\* right when |dx| > |dy| and dx > 0, left when |dx| > |dy| and dx < 0, bottom when
\* |dx| <= |dy| and dy > 0, top when |dx| <= |dy| and dy < 0, and always one of the
\* four; barcode {0,0,100,50} and fragment {120,20,80,20} give right.
C7_Direction ==
    /\ \A b \in DOMAIN a_barcodes, i \in DOMAIN a_texts :
          LET d == Offset2(a_barcodes[b].position, a_texts[i].position)
              direction == GetDirection(a_barcodes[b].position, a_texts[i].position)
          IN  /\ direction \in {"right", "left", "bottom", "top"}
              /\ (Abs(d[1]) > Abs(d[2]) /\ d[1] > 0) => direction = "right"
              /\ (Abs(d[1]) > Abs(d[2]) /\ d[1] < 0) => direction = "left"
              /\ (Abs(d[1]) <= Abs(d[2]) /\ d[2] > 0) => direction = "bottom"
              /\ (Abs(d[1]) <= Abs(d[2]) /\ d[2] < 0) => direction = "top"
    /\ GetDirection(Box(0, 0, 100, 50), Box(120, 20, 80, 20)) = "right"

\* The analyzer has scored the fragment {120,20,80,20} against the barcode {0,0,100,50}
\* with the weight of 'right', and a fragment on the diagonal of a barcode
C7_Witness ==
    /\ a_pc = "done"
    /\ a_cfg = DefaultConfig
    /\ Len(a_barcodes) = 1 /\ a_barcodes[1].position = Box(0, 0, 100, 50)
    /\ Len(a_texts) = 2
    /\ a_texts[1].position = Box(120, 20, 80, 20)
    /\ LET d == Offset2(a_barcodes[1].position, a_texts[2].position)
       IN  Abs(d[1]) = Abs(d[2]) /\ d[2] > 0
    /\ \E k \in DOMAIN a_results[1].related_text :
          /\ a_results[1].related_text[k].position = Box(120, 20, 80, 20)
          /\ a_results[1].related_text[k].score = 3595

\* Fragment i was not yet consumed as strong when barcode b was processed
Candidate(b, i) == \A b2 \in 1..(b - 1) : ~HeldAs(b2, i, "strong")

\* C8: for every barcode processed and every fragment that was a candidate for it, the
\* fragment is recorded under the barcode iff its score >= weak_threshold, with its
\* score, as 'strong' iff score >= strong_threshold and as 'weak' otherwise; with the
\* default configuration barcode ABC123 {0,0,100,50} and fragment LOT-9 {110,10,60,20}
\* give one weak association and the fragment is also independent.
C8_Thresholds ==
    /\ \A b \in DOMAIN a_results, i \in DOMAIN a_texts :
          Candidate(b, i) =>
              LET score == AssociationScore(a_barcodes[b], a_texts[i], a_cfg)
                  kind == IF score >= a_cfg.strong_threshold THEN "strong" ELSE "weak"
                  records == {k \in DOMAIN a_results[b].related_text :
                                 a_results[b].related_text[k].text = a_texts[i].text}
              IN  /\ (records # {}) <=> (score >= a_cfg.weak_threshold)
                  /\ Cardinality(records) <= 1
                  /\ \A k \in records :
                        /\ a_results[b].related_text[k].relation_type = kind
                        /\ a_results[b].related_text[k].score = score
    /\ (/\ a_pc = "done"
        /\ a_cfg = DefaultConfig
        /\ Len(a_barcodes) = 1 /\ a_barcodes[1].position = Box(0, 0, 100, 50)
        /\ Len(a_texts) = 1 /\ a_texts[1].position = Box(110, 10, 60, 20))
       => /\ Len(a_results) = 1
          /\ Len(a_results[1].related_text) = 1
          /\ a_results[1].related_text[1].relation_type = "weak"
          /\ a_independent = <<[text |-> a_texts[1].text,
                                position |-> a_texts[1].position,
                                type |-> "independent"]>>

\* The example: ABC123 and LOT-9 under the default configuration
C8_Witness ==
    /\ a_pc = "done"
    /\ a_cfg = DefaultConfig
    /\ Len(a_barcodes) = 1
    /\ a_barcodes[1].barcode_data = "ABC123" /\ a_barcodes[1].position = Box(0, 0, 100, 50)
    /\ Len(a_texts) = 1
    /\ a_texts[1].text = "LOT-9" /\ a_texts[1].position = Box(110, 10, 60, 20)
    /\ a_results[1].related_text[1].score = 4394

NeverStrong == {i \in DOMAIN a_texts : Holders(i, "strong") = {}}

\* The k-th smallest index of a set of indices
Nth(idxs, k) == CHOOSE i \in idxs : Cardinality({j \in idxs : j < i}) = k - 1

\* C9: once associate_text_with_barcodes returns, the independent list is the fragments
\* never recorded as strong, in input order, each once, as {text, position,
\* type 'independent'}; fragments recorded only as weak are among them.
C9_Independent ==
    a_pc = "done" =>
        a_independent = [k \in 1..Cardinality(NeverStrong) |->
                            [text |-> a_texts[Nth(NeverStrong, k)].text,
                             position |-> a_texts[Nth(NeverStrong, k)].position,
                             type |-> "independent"]]

\* The first fragment was consumed as strong, the second is weak under both barcodes
\* and is the only independent one
C9_Witness ==
    /\ a_pc = "done"
    /\ Len(a_barcodes) = 2
    /\ Len(a_texts) = 2
    /\ Holders(1, "strong") # {}
    /\ Holders(2, "weak") = {1, 2}
    /\ Len(a_independent) = 1
    /\ a_independent[1].text = a_texts[2].text

\* C10: in the result list of every successful run of process_image under barcode_only,
\* barcode_and_ocr or ai, no two barcode or barcode_group entries carry the same
\* barcode_data.
C10_PayloadUniqueness ==
    (/\ p_pc = "returned"
     /\ p_result.success
     /\ p_recognition_mode \in {"barcode_only", "barcode_and_ocr", "ai"})
    => \A i, j \in DOMAIN p_result.results :
          (/\ p_result.results[i].type \in {"barcode", "barcode_group"}
           /\ p_result.results[j].type \in {"barcode", "barcode_group"}
           /\ p_result.results[i].data.barcode_data = p_result.results[j].data.barcode_data)
          => i = j

\* The four fields of the result envelope
EnvelopeFields == {"success", "results", "error", "process_time"}

\* C11: every returned run, through process_image or process_image_file,
\* carries success, results, error and process_time, and error is None
\* exactly when success is true.
C11_ResultEnvelope ==
    p_pc = "returned" =>
        /\ EnvelopeFields \subseteq DOMAIN p_result
        /\ (p_result.error = None) <=> p_result.success

\* C12: a failure inside one variant of decode_with_enhancement, in its image
\* transformation or in its decoder call, never ends the ensemble: no exception
\* leaves the call, and the call returns only after the last variant was reached.
C12_VariantIsolation ==
    /\ e_pc # "raised"
    /\ e_pc = "returned" => e_try = 8

\* The run ended with success false and an error message
RunFailed == ~p_result.success /\ p_result.error # None

\* The engine of the ai strategy could not be used: not available, or not reached
AIEngineMissing ==
    \/ ~is_available(p_ai)
    \/ "kind" \in DOMAIN p_reply /\ p_reply.kind = "request_failed"

\* C13 (as stated): whenever the engine a strategy requires is unavailable (OCR for
\* ocr_only at any depth and for barcode_and_ocr at balanced or full, the AI engine
\* for ai), the run ends with success false and an error.
C13_RequiredEngineAborts ==
    p_pc = "returned" =>
        /\ (p_recognition_mode = "ocr_only" /\ ~p_tesseract) => RunFailed
        /\ (/\ p_recognition_mode = "barcode_and_ocr"
            /\ p_mode \in {"balanced", "full"}
            /\ ~p_tesseract) => RunFailed
        /\ (p_recognition_mode = "ai" /\ AIEngineMissing) => RunFailed

\* C13 (amended): without OCR an ocr_only run fails, and without the AI engine an ai
\* run fails, each with success false and an error; a barcode_and_ocr run does not
\* need OCR: without it the run goes on as at depth fast, never invokes OCR or the
\* scorer, and when it succeeds every result is a 'barcode'.
C13_EngineFailure ==
    /\ p_pc = "returned" =>
          /\ (p_recognition_mode = "ocr_only" /\ ~p_tesseract) => RunFailed
          /\ (p_recognition_mode = "ai" /\ AIEngineMissing) => RunFailed
          /\ (/\ p_recognition_mode = "barcode_and_ocr"
              /\ ~p_tesseract
              /\ p_result.success)
             => \A i \in DOMAIN p_result.results : p_result.results[i].type = "barcode"
    /\ (p_recognition_mode = "barcode_and_ocr" /\ ~p_tesseract)
          => p_ocr = EmptyDict /\ a_pc = "idle"

\* A balanced barcode_and_ocr run without OCR returned two barcodes
C13_Witness ==
    /\ p_pc = "returned"
    /\ p_recognition_mode = "barcode_and_ocr"
    /\ p_mode = "balanced"
    /\ ~p_tesseract
    /\ p_result.success
    /\ Len(p_result.results) = 2

\* The reply of the AI engine is not valid structured data
MalformedReplies == {"not_json", "json_not_object", "no_choices"}

\* C14: under strategy ai, whenever the engine's reply is not valid structured data
\* (text that is no JSON, JSON that is no object, or a body without choices/message),
\* the run ends in success with exactly one text object carrying the raw reply.
C14_MalformedReplyRecovery ==
    (/\ p_pc = "returned"
     /\ p_recognition_mode = "ai"
     /\ "kind" \in DOMAIN p_reply
     /\ p_reply.kind \in MalformedReplies)
    => /\ p_result.success
       /\ Len(p_result.results) = 1
       /\ p_result.results[1].type = "text"
       /\ p_result.results[1].data.text = p_reply.content

\* The preconditions of the AI engine in the order of the claim, and the cause the
\* error names for each
Preconditions ==
    <<"enabled", "active_model_id", "model", "provider", "provider_enabled", "api_key">>

CauseNamed ==
    <<"unavailable: not enabled", "unavailable: no active model",
      "unavailable: model does not exist", "unavailable: provider does not exist",
      "unavailable: provider not enabled", "unavailable: provider lacks API key">>

Unmet(ai) == {i \in DOMAIN Preconditions : ~ai[Preconditions[i]]}

FirstUnmet(ai) == CHOOSE i \in Unmet(ai) : \A j \in Unmet(ai) : i <= j

\* The run got as far as the branch of its strategy
ReachedStrategy ==
    /\ p_pc = "returned"
    /\ p_result.error \notin {LoadFailure.error, PreprocessError}

C16_ConfigurationIsolation == Cardinality(r_seen) <= 1

\* A streaming request is suspended between two chunks of the old recognizer while
\* update_ai_config has already replaced it
C16_Witness ==
    /\ r_endpoint = "stream"
    /\ r_pc = "gen_yielded"
    /\ r_seen = {0}
    /\ g_recognizer = 1

\* C17: by the time a request to the single, stream or batch endpoint is over, no
\* temp file it created exists, on every exit path.
C17_TempFilesReleased == r_pc = "over" => r_files = {}

\* The positions of the results of one type
OfType(results, t) == {k \in DOMAIN results : results[k].type = t}

\* A result list without its order numbers
Unnumbered(results) ==
    [k \in DOMAIN results |->
        [f \in DOMAIN results[k] \ {"order"} |-> results[k][f]]]

\* The detail field a barcode_group carries at a depth
GroupField(mode) == IF mode = "balanced" THEN "related_text" ELSE "related_text_details"

\* What a successful balanced or full run returns for the barcodes and the
\* independent fragments the analyzer holds
MixedDispatch(results, barcodes, independent) ==
    /\ Len(results) = Len(barcodes) + Len(independent)
    /\ Cardinality(OfType(results, "barcode_group")) = Len(barcodes)
    /\ Cardinality(OfType(results, "text")) = Len(independent)
    /\ \A i \in DOMAIN barcodes :
          \E k \in OfType(results, "barcode_group") :
             /\ results[k].data.barcode_data = barcodes[i].barcode_data
             /\ results[k].position = barcodes[i].position
    /\ \A k \in OfType(results, "barcode_group") :
          DOMAIN results[k].data = {"barcode_data", "barcode_type", GroupField(p_mode)}
    /\ \A i \in DOMAIN independent :
          \E k \in OfType(results, "text") :
             /\ results[k].data.text = independent[i].text
             /\ results[k].position = independent[i].position
    /\ \A k \in DOMAIN results : results[k].order = k
    /\ Unnumbered(results) = Sort(Unnumbered(results), p_sort_order, RowToleranceDefault)

\* C18: a barcode_and_ocr run at depth fast never invokes OCR or the scorer and
\* returns only 'barcode' results; at depth balanced or full with OCR available a
\* successful run returns one barcode_group per detected barcode (related_text at
\* balanced, related_text_details at full) and one text per independent fragment,
\* sorted and then numbered.
C18_MixedDispatch ==
    /\ []((p_recognition_mode = "barcode_and_ocr" /\ p_mode = "fast")
            => /\ p_ocr = EmptyDict /\ a_pc = "idle"
               /\ (p_pc = "returned" /\ p_result.success)
                     => \A k \in DOMAIN p_result.results :
                           p_result.results[k].type = "barcode")
    /\ [][(/\ p_recognition_mode = "barcode_and_ocr"
           /\ p_mode \in {"balanced", "full"}
           /\ p_tesseract
           /\ p_pc = "associate"
           /\ p_pc' = "returned"
           /\ p_result'.success)
          => MixedDispatch(p_result'.results, a_barcodes, a_independent)]_vars

\* A balanced run returned a barcode_group with its related text and a text object
C18_Witness ==
    /\ p_pc = "returned"
    /\ p_recognition_mode = "barcode_and_ocr"
    /\ p_mode = "balanced"
    /\ p_result.success
    /\ \E k \in OfType(p_result.results, "barcode_group") :
          p_result.results[k].data.related_text # None
    /\ OfType(p_result.results, "text") # {}

\* A result without the fields named
Without(result, fields) == [f \in DOMAIN result \ fields |-> result[f]]

\* What process_image returns at depth d for the engines, replies and elapsed time
\* of the run in the state (ocr_only and ai)
ResultAtDepth(d) ==
    LET result == InitialResult(d, p_recognition_mode, p_sort_order)
        elapsed == p_result.process_time
    IN  IF p_recognition_mode = "ocr_only"
        THEN IF p_tesseract
             THEN OcrOnlyResult(result, p_ocr, p_sort_order, d, elapsed)
             ELSE Failed(result, "OCR unavailable, install Tesseract OCR", elapsed)
        ELSE IF ~is_available(p_ai)
             THEN Failed(result, UnavailableCause(p_ai), elapsed)
             ELSE IF RecognizeRaises(p_reply)
                  THEN Failed(result, "AI recognition failed: " \o p_reply.kind, elapsed)
                  ELSE AiResult(result, Recognize(p_reply), p_sort_order, elapsed)

\* An ocr_only or ai run returned from the branch of its strategy
DepthRun == ReachedStrategy /\ p_recognition_mode \in {"ocr_only", "ai"}

FirstNew(barcodes, merged) ==
    LET idxs == {i \in DOMAIN barcodes :
                    /\ barcodes[i].barcode_data \notin Payloads(merged)
                    /\ \A j \in 1..(i - 1) :
                          barcodes[j].barcode_data # barcodes[i].barcode_data}
    IN  [k \in 1..Cardinality(idxs) |-> barcodes[Nth(idxs, k)]]

\* C20: decode_with_enhancement walks the variants 1 to 8 in order, whatever the
\* earlier ones found; each variant appends to the merged list exactly the first
\* occurrences of the payloads not merged before, so that what is returned is the
\* sequence of first occurrences in the concatenation of the variants' results,
\* with the type and position of the earliest variant; the upscaled variant
\* contributes exactly when the image is small.
C20_MergeReference ==
    /\ [][(e_pc = "run" /\ e_pc' # "raised")
           => /\ e_all' = e_all \o FirstNew(e_barcodes', e_all)
              /\ IF e_try < 8
                 THEN e_try' = e_try + 1 /\ e_pc' = "run"
                 ELSE e_try' = e_try /\ e_pc' = "returned"
              /\ (e_try = 8 /\ ~e_small) => e_all' = e_all /\ e_barcodes' = e_barcodes]_vars
    /\ [](e_pc = "returned" => e_try = 8)

\* The upscaled variant found a payload an earlier variant had found elsewhere, and
\* a new one: the first keeps its earlier position, the second is appended
C20_Witness ==
    /\ e_pc = "returned"
    /\ e_small
    /\ Len(e_all) = 2
    /\ Len(e_barcodes) = 2
    /\ e_all[1].barcode_data = e_barcodes[1].barcode_data
    /\ e_all[1].position # e_barcodes[1].position
    /\ e_all[2] = e_barcodes[2]

\* A polygon with every vertex divided by 1.5, truncated
PolygonDividedBy15(polygon) ==
    [i \in DOMAIN polygon |-> <<DivideBy15(polygon[i][1]), DivideBy15(polygon[i][2])>>]

\* A detection of the upscaled image with its box and its polygon brought back
Normalized(d) == [Downscaled(d) EXCEPT !.polygon = PolygonDividedBy15(d.polygon)]

\* C21: every detection first found on the 1.5x upscaled variant is merged with its
\* bounding box and every polygon vertex divided by 1.5 (truncated), so that all
\* that decode_with_enhancement emits is in the frame of the image passed to it.
C21_UpscaledNormalization ==
    [][(e_pc = "run" /\ e_try = 8 /\ e_small /\ e_pc' = "returned")
         => \A k \in (Len(e_all) + 1)..Len(e_all') :
               \E d \in DecoderDetections : e_all'[k] = Normalized(d)]_vars

-----------------------------------------------------------------------------
(* Greedy order dependence *)

\* associate_text_with_barcodes run on its own over a barcode list: the outer loop
RECURSIVE AssociateAll(_, _, _)
AssociateAll(barcodes, texts, cfg) ==
    IF barcodes = << >> THEN [results |-> << >>, used |-> {}, raised |-> FALSE]
    ELSE LET st == AssociateAll(SubSeq(barcodes, 1, Len(barcodes) - 1), texts, cfg)
         IN  IF st.raised THEN st
             ELSE BarcodeStep(st, barcodes[Len(barcodes)], texts, cfg)

\* The input with the barcodes at places p and q exchanged
Swapped(barcodes, p, q) ==
    [k \in DOMAIN barcodes |->
        IF k = p THEN barcodes[q] ELSE IF k = q THEN barcodes[p] ELSE barcodes[k]]

\* Fragment i appears under result b of `results`, with this relation type
HeldIn(results, b, i, relation_type) ==
    \E k \in DOMAIN results[b].related_text :
        /\ results[b].related_text[k].text = a_texts[i].text
        /\ results[b].related_text[k].position = a_texts[i].position
        /\ results[b].related_text[k].relation_type = relation_type

\* The barcodes against which fragment i scores at least `floor`
ScoringAtLeast(i, floor) ==
    {b \in DOMAIN a_barcodes :
        /\ ~ScoreRaises(a_barcodes[b], a_texts[i], a_cfg)
        /\ AssociationScore(a_barcodes[b], a_texts[i], a_cfg) >= floor}

Least(S) == CHOOSE b \in S : \A b2 \in S : b <= b2

\* Fragment i goes to the first barcode of S alone, and to the other one of the pair
\* once that one is moved to the front
FirstReceives(i, S) ==
    LET first == Least(S)
    IN  /\ Holders(i, "strong") = {first}
        /\ \A b \in DOMAIN a_results :
              b > first => ~HeldAs(b, i, "strong") /\ ~HeldAs(b, i, "weak")
        /\ \A q \in S \ {first} :
              LET run == AssociateAll(Swapped(a_barcodes, first, q), a_texts, a_cfg)
              IN  ~run.raised =>
                     /\ run.results[first].barcode = a_barcodes[q]
                     /\ HeldIn(run.results, first, i, "strong")
                     /\ \A b \in DOMAIN run.results :
                           /\ b < first => ~HeldIn(run.results, b, i, "strong")
                           /\ b > first => /\ ~HeldIn(run.results, b, i, "strong")
                                           /\ ~HeldIn(run.results, b, i, "weak")

\* C22 as stated: once associate_text_with_barcodes returns, a fragment that scores
\* >= strong_threshold against two barcodes is recorded as strong under the first of
\* them in input order only and appears, strong or weak, under no later barcode, and
\* the run on the input with the two barcodes swapped records it under the other one.
C22_GreedyOrder ==
    a_pc = "done" =>
        \A i \in DOMAIN a_texts :
            LET S == ScoringAtLeast(i, a_cfg.strong_threshold)
            IN  Cardinality(S) >= 2 => FirstReceives(i, S)

\* C22 amended: the same for a fragment that scores at or above both strong_threshold
\* and weak_threshold against the two barcodes.
C22_GreedyOrderAboveWeak ==
    a_pc = "done" =>
        \A i \in DOMAIN a_texts :
            LET S == ScoringAtLeast(i, a_cfg.strong_threshold)
                       \cap ScoringAtLeast(i, a_cfg.weak_threshold)
            IN  Cardinality(S) >= 2 => FirstReceives(i, S)

\* Two different barcodes, one fragment strong for both and held by the first, and the
\* swapped input returns too
C22_Witness ==
    /\ a_pc = "done"
    /\ Len(a_barcodes) = 2
    /\ a_barcodes[1] # a_barcodes[2]
    /\ a_cfg.weak_threshold <= a_cfg.strong_threshold
    /\ \E i \in DOMAIN a_texts :
          /\ ScoringAtLeast(i, a_cfg.strong_threshold) = {1, 2}
          /\ HeldAs(1, i, "strong")
          /\ ~AssociateAll(<<a_barcodes[2], a_barcodes[1]>>, a_texts, a_cfg).raised

-----------------------------------------------------------------------------
(* Association ordering *)

\* The place in the fragment list of the fragment a record was made from
FragmentOf(record) == CHOOSE i \in DOMAIN a_texts : a_texts[i].text = record.text

\* C23: at every point of associate_text_with_barcodes, in each barcode's result
\* related_text is in non-increasing score order, records of equal score are in
\* fragment input order, and has_association is true iff related_text is non-empty.
C23_AssociationOrdering ==
    \A b \in DOMAIN a_results :
        LET related == a_results[b].related_text
        IN  /\ \A k \in 1..(Len(related) - 1) :
                  /\ related[k].score >= related[k + 1].score
                  /\ related[k].score = related[k + 1].score
                        => FragmentOf(related[k]) < FragmentOf(related[k + 1])
            /\ a_results[b].has_association <=> (related # << >>)

\* One barcode holds two fragments of equal score in their input order, and another
\* holds the same two fragments with the later one first
C23_Witness ==
    /\ a_pc = "done"
    /\ \E b \in DOMAIN a_results :
          /\ Len(a_results[b].related_text) = 2
          /\ a_results[b].related_text[1].score = a_results[b].related_text[2].score
          /\ FragmentOf(a_results[b].related_text[1]) = 1
    /\ \E b \in DOMAIN a_results :
          /\ Len(a_results[b].related_text) = 2
          /\ a_results[b].related_text[1].score > a_results[b].related_text[2].score
          /\ FragmentOf(a_results[b].related_text[1]) = 2

-----------------------------------------------------------------------------
(* create_groups *)

\* The texts of the first k records, each after the first preceded by one space
RECURSIVE SpaceJoined(_, _)
SpaceJoined(related, k) ==
    IF k = 0 THEN ""
    ELSE IF k = 1 THEN related[1].text
    ELSE SpaceJoined(related, k - 1) \o " " \o related[k].text

\* C24: once create_groups has run on the returned associations, there is one group
\* per association in input order, carrying the barcode's data, type and position; its
\* related_text is the texts of the barcode's fragments in their sorted order joined
\* by spaces, text_count is their number, and relation_strength is 'strong' iff at
\* least one of them is strong and 'weak' otherwise.
C24_CreateGroups ==
    a_pc = "grouped" =>
        /\ Len(a_groups) = Len(a_results)
        /\ \A b \in DOMAIN a_results :
              LET related == a_results[b].related_text
                  group == a_groups[b]
              IN  /\ group.barcode_data = a_barcodes[b].barcode_data
                  /\ group.barcode_type = a_barcodes[b].barcode_type
                  /\ group.position = a_barcodes[b].position
                  /\ group.related_text = SpaceJoined(related, Len(related))
                  /\ group.text_count = Len(related)
                  /\ group.relation_strength \in {"strong", "weak"}
                  /\ group.relation_strength = "strong"
                        <=> \E i \in DOMAIN a_texts : HeldAs(b, i, "strong")

\* One group joins two fragments, the second of the input sorted first and strong, the
\* other weak, and is strong; the other barcode has no fragment and its group is weak
C24_Witness ==
    /\ a_pc = "grouped"
    /\ Len(a_groups) = 2
    /\ \E b \in DOMAIN a_groups :
          /\ a_groups[b].text_count = 2
          /\ a_groups[b].related_text = "P/N LOT-9"
          /\ a_results[b].related_text[2].relation_type = "weak"
          /\ a_groups[b].relation_strength = "strong"
    /\ \E b \in DOMAIN a_groups :
          /\ a_groups[b].text_count = 0
          /\ a_groups[b].related_text = ""
          /\ a_groups[b].relation_strength = "weak"

-----------------------------------------------------------------------------
(* Scorer failure containment *)

\* C25: in a barcode_and_ocr run at depth balanced or full, whenever the score
\* computation raises inside associate_text_with_barcodes (a barcode of width 0 whose
\* centre coincides with a fragment's centre), the run still ends in success and
\* reports every detected barcode among its results.
C25_ScorerContainment ==
    [][(/\ p_pc = "associate"
        /\ a_pc = "raised"
        /\ p_pc' = "returned")
       => /\ p_result'.success
          /\ \A b \in DOMAIN a_barcodes :
                \E k \in DOMAIN p_result'.results :
                    /\ p_result'.results[k].type \in {"barcode", "mixed"}
                    /\ p_result'.results[k].position = a_barcodes[b].position]_vars

-----------------------------------------------------------------------------
(* Streaming order and termination *)

\* The text deltas the engine sent before its sentinel, in order
RECURSIVE Deltas(_)
Deltas(lines) ==
    IF lines = << >> \/ Head(lines).kind = "done" THEN << >>
    ELSE IF Head(lines).kind = "content"
         THEN <<Event("content", Head(lines).content)>> \o Deltas(Tail(lines))
         ELSE Deltas(Tail(lines))

Done == Event("data", "[DONE]")

\* C26: in the streaming endpoint the events yielded so far are always the engine's
\* text deltas before its sentinel, unmodified, one event each, in order; as long as
\* the client listens the generator goes from one delta to the next yield; the [DONE]
\* event is yielded once, after the last delta, with nothing after it; and when the
\* image cannot be read or the engine is unavailable the only event is one error event.
C26_StreamingOrder ==
    [][/\ \/ IsPrefix(r_events', Deltas(r_lines'))
          \/ r_events' = Deltas(r_lines') \o <<Done>>
          \/ Len(r_events') = 1 /\ r_events'[1].key = "error" /\ r_lines' = << >>
       /\ r_pc = "gen_loop" => r_pc' \in {"gen_yielded", "gen_last"}
       /\ r_pc' = "gen_last" =>
             \/ r_events' = Deltas(r_lines') \o <<Done>>
             \/ Len(r_events') = 1 /\ r_events'[1].key = "error"
       /\ (r_pc = "gen_loop" /\ r_pc' = "gen_yielded")
             => Len(r_events') = Len(r_events) + 1]_vars

-----------------------------------------------------------------------------
(* Reading-order structure *)

\* The part of the output that row r of the grouping occupies
RowSegment(r) == SubSeq(s_sorted, RowStart(s_rows, r), RowStart(s_rows, r) + Len(s_rows[r]) - 1)

\* The smallest y-centre of a row (doubled)
Anchor2(row) == CHOOSE y \in {YCenter2(row[k]) : k \in DOMAIN row} :
                    \A k \in DOMAIN row : y <= YCenter2(row[k])

\* C27: the output of sort_reading_order is the rows in formation order, one after the
\* other; inside a row the x-centres never decrease, every member's y-centre lies in
\* [anchor, anchor + row_tolerance] with anchor the smallest y-centre of the row, and
\* each row's anchor exceeds the previous row's anchor by more than row_tolerance.
C27_ReadingOrderStructure ==
    RowsBuilt =>
        /\ Len(s_sorted) = Len(s_objects)
        /\ Len(Flatten(s_rows)) = Len(s_sorted)
        /\ \A r \in DOMAIN s_rows :
              LET row == RowSegment(r)
              IN  /\ row # << >>
                  /\ {row[k] : k \in DOMAIN row} = {s_rows[r][k] : k \in DOMAIN s_rows[r]}
                  /\ \A k \in 1..(Len(row) - 1) : XCenter2(row[k]) <= XCenter2(row[k + 1])
                  /\ \A k \in DOMAIN row :
                        /\ Anchor2(row) <= YCenter2(row[k])
                        /\ YCenter2(row[k]) <= Anchor2(row) + 2 * s_tol
                  /\ r > 1 => Anchor2(row) > Anchor2(RowSegment(r - 1)) + 2 * s_tol

\* Two rows, the first with two members that the sort inside the row exchanged
C27_Witness ==
    /\ s_pc = "done"
    /\ s_order = "reading_order"
    /\ Len(s_rows) = 2
    /\ Len(s_rows[1]) = 2
    /\ RowSegment(1) = <<s_rows[1][2], s_rows[1][1]>>
    /\ YCenter2(s_rows[1][1]) < YCenter2(s_rows[1][2])

-----------------------------------------------------------------------------
(* Sort is a permutation *)

Ids(objs) == [i \in DOMAIN objs |-> objs[i].id]

\* The objects with position {0,0,0,0} given to those that have none
AtOrigin(objs) ==
    [i \in DOMAIN objs |->
        IF "position" \in DOMAIN objs[i] THEN objs[i]
        ELSE [id |-> objs[i].id, position |-> Box(0, 0, 0, 0)]]

\* C28: under every order mode, an unknown one included, sort returns the objects of
\* the input, each once and unchanged; an unknown mode gives what reading_order gives;
\* objects without a position are placed as objects centred on (0,0) would be; an empty
\* input gives an empty output; and the input list keeps its order.
C28_SortPermutation ==
    /\ \A i \in DOMAIN s_objects : s_objects[i].id = i
    /\ s_pc # "sort" =>
          /\ Len(s_sorted) = Len(s_objects)
          /\ {s_sorted[i].id : i \in DOMAIN s_sorted} = DOMAIN s_objects
          /\ \A i \in DOMAIN s_sorted : s_sorted[i] = s_objects[s_sorted[i].id]
          /\ s_objects = << >> => s_sorted = << >>
          /\ s_order \notin {"reading_order", "top_to_bottom", "left_to_right", "grid_order"}
                => s_sorted = sort_reading_order(s_objects, s_tol)
          /\ Ids(s_sorted) = Ids(Sort(AtOrigin(s_objects), s_order, s_tol))

\* An unknown mode, three objects of which the last has no position and one starts a
\* second row, and an output in another order than the input
C28_Witness ==
    /\ s_pc = "done"
    /\ s_order = "zigzag"
    /\ Len(s_objects) = 3
    /\ "position" \notin DOMAIN s_objects[3]
    /\ Len(s_rows) = 2
    /\ Ids(s_sorted) = <<3, 2, 1>>

-----------------------------------------------------------------------------
(* Coordinate frames *)

\* The larger side of the image whose pixels the detector's boxes are measured in:
\* barcode_detector.detect(processed_img), the preprocessed image
DetectorFrame == ResizedDim(p_image_dim)

\* The larger side of the image whose pixels the OCR boxes are measured in:
\* text_recognizer.recognize_full(image), the argument image
OcrFrame == p_image_dim

\* A box measured in an image of larger side `frame`, in the pixels of the argument image
InOriginal(position, frame) ==
    [x |-> (position.x * p_image_dim) \div frame,
     y |-> (position.y * p_image_dim) \div frame,
     width |-> (position.width * p_image_dim) \div frame,
     height |-> (position.height * p_image_dim) \div frame]

\* The boxes of the analyzer's arguments that are in the pixels of the argument image
OriginalFrameBoxes ==
    {a_barcodes[b].position : b \in {b \in DOMAIN a_barcodes :
        InOriginal(a_barcodes[b].position, DetectorFrame) = a_barcodes[b].position}}
    \cup
    {a_texts[i].position : i \in {i \in DOMAIN a_texts :
        InOriginal(a_texts[i].position, OcrFrame) = a_texts[i].position}}

\* C29: in a barcode_and_ocr run at depth balanced or full, the barcode boxes and the
\* fragment boxes handed to associate_text_with_barcodes are all in the pixels of the
\* argument image, and so is every position of the results the run returns, whatever
\* the size of the image.
C29_OneFrame ==
    [][p_pc = "associate" =>
          /\ \A b \in DOMAIN a_barcodes : a_barcodes[b].position \in OriginalFrameBoxes
          /\ \A i \in DOMAIN a_texts : a_texts[i].position \in OriginalFrameBoxes
          /\ (p_pc' = "returned" /\ p_result'.success) =>
                \A k \in DOMAIN p_result'.results :
                    p_result'.results[k].position \in OriginalFrameBoxes]_vars

-----------------------------------------------------------------------------
(* Unknown strategy *)

UnknownStrategy ==
    p_recognition_mode \notin {"barcode_only", "ocr_only", "barcode_and_ocr", "ai"}

\* C30: throughout a process_image run whose recognition_mode is none of the four
\* strategies, the detector and the analyzer stay idle, no OCR result and no AI reply
\* exists and the run is in none of the engine stages; a run that got to the dispatch
\* ends with success true, an empty results list and error None, the other fields as
\* first built.
C30_UnknownStrategy ==
    UnknownStrategy =>
        /\ e_pc = "idle" /\ e_all = << >>
        /\ a_pc = "idle" /\ a_results = << >>
        /\ s_pc = "idle"
        /\ p_ocr = EmptyDict
        /\ p_reply = EmptyDict
        /\ p_pc \in {"load", "start", "returned"}
        /\ ReachedStrategy =>
              /\ p_result.success
              /\ p_result.results = << >>
              /\ p_result.error = None
              /\ [p_result EXCEPT !.process_time = 0]
                    = InitialResult(p_mode, p_recognition_mode, p_sort_order)

\* A run under the strategy 'hybrid' has returned from the dispatch
C30_Witness ==
    /\ p_recognition_mode = "hybrid"
    /\ p_pc = "returned"
    /\ p_result.success
    /\ p_result.results = << >>
    /\ p_result.process_time > 0

=============================================================================
